---- MODULE Spec2Model ----
(***************************************************************************)
(* Model of the dataframe operation handlers of the Carnot compiler        *)
(* (JoinHandler, AggHandler, DropHandler, RangeHandler, LimitHandler,      *)
(* SubscriptHandler, GroupByHandler) acting on the IR graph.               *)
(*                                                                         *)
(* The IR graph is a map from node id to node.  Every node is a record of  *)
(* one shape; a field that a kind does not use keeps its empty value.      *)
(*   kind      the node kind                                               *)
(*   parents   operator parents, in order                                  *)
(*   str       String value / Column name / Func name / Join `how`         *)
(*   val       Int value / Limit value / Column parent index               *)
(*   children  List and Tuple children / Func args / Join left_on columns  *)
(*             / Map, GroupBy columns / BlockingAgg functions / Filter     *)
(*             expression / Range start and stop                           *)
(*   aux       Join right_on columns                                       *)
(*   names     Join suffixes / Drop column names / Map and BlockingAgg     *)
(*             output names                                                *)
(*   flag      Map keep_input_columns                                      *)
(***************************************************************************)
EXTENDS Integers, Sequences, FiniteSets, TLC

VARIABLES graph, dataframes, last, calls, objects, org_data_retention_plugins

vars == <<graph, dataframes, last, calls, objects, org_data_retention_plugins>>

\* ---------------------------------------------------------------- bounds
\* Largest node id the graph may hand out.
MaxNodes == 17
\* Longest list of labels given to an argument.
MaxLen == 2
\* Number of handler calls in one compile.
MaxCalls == 2
\* Most keyword arguments given to agg.
MaxKwargs == 2

\* ------------------------------------------------------------ node kinds
OperatorKinds ==
  {"MemorySource", "Join", "BlockingAgg", "Drop", "Range", "Limit", "Map", "Filter", "GroupBy"}

ExpressionKinds == {"String", "Int", "List", "Tuple", "Func", "Column"}

Node(kind, parents, str, val, children, aux, names, flag) ==
  [kind |-> kind, parents |-> parents, str |-> str, val |-> val,
   children |-> children, aux |-> aux, names |-> names, flag |-> flag]

StringIR(s) == Node("String", <<>>, s, 0, <<>>, <<>>, <<>>, FALSE)
IntIR(v) == Node("Int", <<>>, "", v, <<>>, <<>>, <<>>, FALSE)
ListIR(children) == Node("List", <<>>, "", 0, children, <<>>, <<>>, FALSE)
TupleIR(children) == Node("Tuple", <<>>, "", 0, children, <<>>, <<>>, FALSE)
FuncIR(name, args) == Node("Func", <<>>, name, 0, args, <<>>, <<>>, FALSE)
ColumnIR(name, parent_idx) == Node("Column", <<>>, name, parent_idx, <<>>, <<>>, <<>>, FALSE)
MemorySourceIR(table) == Node("MemorySource", <<>>, table, 0, <<>>, <<>>, <<>>, FALSE)
BlockingAggIR(parent, groups, names, exprs) ==
  Node("BlockingAgg", <<parent>>, "", 0, exprs, groups, names, FALSE)
DropIR(parent, names) == Node("Drop", <<parent>>, "", 0, <<>>, <<>>, names, FALSE)
RangeIR(parent, start, stop) == Node("Range", <<parent>>, "", 0, <<start, stop>>, <<>>, <<>>, FALSE)
LimitIR(parent, limit_value) == Node("Limit", <<parent>>, "", limit_value, <<>>, <<>>, <<>>, FALSE)
FilterIR(parent, expr) == Node("Filter", <<parent>>, "", 0, <<expr>>, <<>>, <<>>, FALSE)
MapIR(parent, names, exprs, keep_input_columns) ==
  Node("Map", <<parent>>, "", 0, exprs, <<>>, names, keep_input_columns)
GroupByIR(parent, groups) == Node("GroupBy", <<parent>>, "", 0, groups, <<>>, <<>>, FALSE)

Elems(s) == {s[i] : i \in DOMAIN s}

\* ------------------------------------------------------- IR graph store
Live(g) == DOMAIN g.nodes

\* IR::CreateNode: the node gets the next id, which is never handed out again.
AddNode(g, node) ==
  [nodes |-> (g.next :> node) @@ g.nodes, next |-> g.next + 1]

\* The ids a node refers to.
Refs(node) == Elems(node.parents) \cup Elems(node.children) \cup Elems(node.aux)

Referenced(g, id) == \E other \in Live(g) \ {id} : id \in Refs(g.nodes[other])

RemoveNodes(g, ids) ==
  [nodes |-> [i \in Live(g) \ ids |-> g.nodes[i]], next |-> g.next]

\* IR::DeleteNode: fails when the node is missing or still referenced.
DeleteNode(g, id) ==
  IF id \notin Live(g) \/ Referenced(g, id)
  THEN [g |-> g, ok |-> FALSE]
  ELSE [g |-> RemoveNodes(g, {id}), ok |-> TRUE]

\* The expression subtree below a node: the node, its children and theirs.
RECURSIVE Subtree(_, _)
Subtree(g, id) ==
  {id} \cup UNION {Subtree(g, c) : c \in Elems(g.nodes[id].children) \cap Live(g)}

\* IR::DeleteNodeAndChildren: deletes the subtree the node owns; fails when
\* the node is missing or a node outside the subtree refers into it.
DeleteNodeAndChildren(g, id) ==
  IF id \notin Live(g) THEN [g |-> g, ok |-> FALSE]
  ELSE LET sub == Subtree(g, id)
       IN IF \E other \in Live(g) \ sub : Refs(g.nodes[other]) \cap sub # {}
          THEN [g |-> g, ok |-> FALSE]
          ELSE [g |-> RemoveNodes(g, sub), ok |-> TRUE]

\* FuncIR::AddArg: the argument goes to the end of the function's arguments.
AddArg(g, func, arg) ==
  [g EXCEPT !.nodes[func].children = Append(@, arg)]

\* ------------------------------------------------------------- matching
IsOperator(g, id) == g.nodes[id].kind \in OperatorKinds
IsExpression(g, id) == g.nodes[id].kind \in ExpressionKinds
IsString(g, id) == g.nodes[id].kind = "String"
IsInt(g, id) == g.nodes[id].kind = "Int"
IsList(g, id) == g.nodes[id].kind = "List"
IsTuple(g, id) == g.nodes[id].kind = "Tuple"
IsFunc(g, id) == g.nodes[id].kind = "Func"

AllChildrenString(g, id) ==
  \A i \in DOMAIN g.nodes[id].children : IsString(g, g.nodes[id].children[i])

ListWithChildrenString(g, id) == IsList(g, id) /\ AllChildrenString(g, id)

CollectionWithChildrenString(g, id) ==
  (IsList(g, id) \/ IsTuple(g, id)) /\ AllChildrenString(g, id)

\* ParseStringsFromCollection: the children's strings in order, or an
\* error when a child is not a string.
ParseStringsFromCollection(g, id) ==
  IF AllChildrenString(g, id)
  THEN [ok |-> TRUE,
        strs |-> [i \in DOMAIN g.nodes[id].children |-> g.nodes[g.nodes[id].children[i]].str]]
  ELSE [ok |-> FALSE, strs |-> <<>>]

\* --------------------------------------------------------- handler results
\* What a handler returns: the graph it leaves, and either the operator the
\* new Dataframe wraps or an error message.
Ok(g, op) == [g |-> g, status |-> "ok", err |-> "", ret |-> op]
Err(g, msg) == [g |-> g, status |-> "error", err |-> msg, ret |-> 0]
\* A failed DCHECK (or a crash) ends the process; no result is returned.
Abort(g) == [g |-> g, status |-> "abort", err |-> "", ret |-> 0]

\* CreateColumns with the names taken from the back of the list.
CreateColumns_Reversed(g, names, parent_idx) ==
  LET n == Len(names)
      ids == [i \in 1..n |-> g.next + i - 1]
  IN [g |-> [nodes |-> [i \in Live(g) \cup Elems(ids) |->
                          IF i \in Live(g) THEN g.nodes[i]
                          ELSE ColumnIR(names[n - (i - g.next)], parent_idx)],
             next |-> g.next + n],
      cols |-> ids]

\* CreateColumns that stops after the first name.
CreateColumns_FirstOnly(g, names, parent_idx) ==
  IF names = <<>> THEN [g |-> g, cols |-> <<>>]
  ELSE [g |-> AddNode(g, ColumnIR(names[1], parent_idx)), cols |-> <<g.next>>]

\* Column nodes created one after the other for `names`, all with the same
\* parent index.
CreateColumns(g, names, parent_idx) ==
  LET n == Len(names)
      ids == [i \in 1..n |-> g.next + i - 1]
  IN [g |-> [nodes |-> [i \in Live(g) \cup Elems(ids) |->
                          IF i \in Live(g) THEN g.nodes[i]
                          ELSE ColumnIR(names[i - g.next + 1], parent_idx)],
             next |-> g.next + n],
      cols |-> ids]

\* ------------------------------------------------------------------ Join
\* JoinOperator.JoinType
INNER == 0
LEFT_OUTER == 1
FULL_OUTER == 3

\* The join type a `how` string names; -1 when it names none.
JoinType(how_type) ==
  CASE how_type = "inner" -> INNER
    [] how_type = "left" -> LEFT_OUTER
    [] how_type = "outer" -> FULL_OUTER
    [] OTHER -> -1

\* CreateNode<JoinIR>: the constructor rejects column lists of different
\* lengths and an unknown join type; a rejected node is not in the graph.
CreateJoinIR(g, parents, how_type, left_on_cols, right_on_cols, suffix_strs) ==
  IF Len(left_on_cols) # Len(right_on_cols)
  THEN [g |-> g, ok |-> FALSE, id |-> 0,
        err |-> "'left_on' and 'right_on' must contain the same number of elements."]
  ELSE IF JoinType(how_type) = -1
  THEN [g |-> g, ok |-> FALSE, id |-> 0, err |-> "invalid join type"]
  ELSE [g |-> AddNode(g, Node("Join", parents, how_type, JoinType(how_type),
                              left_on_cols, right_on_cols, suffix_strs, FALSE)),
        ok |-> TRUE, id |-> g.next, err |-> ""]

\* The equality conditions of a Join node: the i-th pairs the i-th left
\* column with the i-th right column.
EqualityConditions(join) ==
  [i \in DOMAIN join.children |-> <<join.children[i], join.aux[i]>>]

\* JoinParents with `right` first.
JoinParents_Swapped(op, right) == <<right, op>>

\* The parents handed to the Join constructor: df's operator, then `right`.
JoinParents(op, right) == <<op, right>>

\* SuffixCountOk that only rejects more than two suffixes.
SuffixCountOk_AtMost2(n) == n <= 2

\* The number of suffixes merge accepts.
SuffixCountOk(n) == n = 2

\* HowType that turns a right join into a left join.
HowType_Normalized(g, how_node) ==
  IF g.nodes[how_node].str = "right" THEN "left" ELSE g.nodes[how_node].str

\* The join type handed to the Join constructor: the string of `how` as it is.
HowType(g, how_node) == g.nodes[how_node].str

ProcessCols(g, node, arg_name, parent_index) ==
  IF ListWithChildrenString(g, node)
  THEN LET c == CreateColumns(g, ParseStringsFromCollection(g, node).strs, parent_index)
       IN [g |-> c.g, ok |-> TRUE, cols |-> c.cols, err |-> ""]
  ELSE IF ~IsString(g, node)
  THEN [g |-> g, ok |-> FALSE, cols |-> <<>>,
        err |-> IF arg_name = "left_on" THEN "'left_on' must be a label or a list of labels"
                ELSE "'right_on' must be a label or a list of labels"]
  ELSE LET c == CreateColumns(g, <<g.nodes[node].str>>, parent_index)
       IN [g |-> c.g, ok |-> TRUE, cols |-> c.cols, err |-> ""]

\* JoinHandler_Eval that looks at suffixes before it makes the columns.
JoinHandler_Eval_SuffixesFirst(g, op, right_node, how_node, left_on_node, right_on_node, suffixes_node) ==
  IF ~IsOperator(g, right_node) THEN Err(g, "'right' must be an operator")
  ELSE IF ~IsString(g, how_node) THEN Err(g, "'how' must be a string")
  ELSE IF ~CollectionWithChildrenString(g, suffixes_node)
  THEN Err(g, "'suffixes' must be a tuple with 2 strings for the left and right suffixes")
  ELSE IF ~SuffixCountOk(Len(ParseStringsFromCollection(g, suffixes_node).strs))
  THEN Err(g, "'suffixes' must be a tuple with 2 elements")
  ELSE
    LET how_type == HowType(g, how_node)
        l == ProcessCols(g, left_on_node, "left_on", 0)
    IN IF ~l.ok THEN Err(l.g, l.err)
       ELSE
         LET r == ProcessCols(l.g, right_on_node, "right_on", 1)
         IN IF ~r.ok THEN Err(r.g, r.err)
            ELSE
              LET j == CreateJoinIR(r.g, JoinParents(op, right_node), how_type,
                                    l.cols, r.cols,
                                    ParseStringsFromCollection(r.g, suffixes_node).strs)
              IN IF ~j.ok THEN Err(j.g, j.err) ELSE Ok(j.g, j.id)

JoinHandler_Eval(g, op, right_node, how_node, left_on_node, right_on_node, suffixes_node) ==
  IF ~IsOperator(g, right_node) THEN Err(g, "'right' must be an operator")
  ELSE IF ~IsString(g, how_node) THEN Err(g, "'how' must be a string")
  ELSE
    LET how_type == HowType(g, how_node)
        l == ProcessCols(g, left_on_node, "left_on", 0)
    IN IF ~l.ok THEN Err(l.g, l.err)
       ELSE
         LET r == ProcessCols(l.g, right_on_node, "right_on", 1)
         IN IF ~r.ok THEN Err(r.g, r.err)
            ELSE IF ~CollectionWithChildrenString(r.g, suffixes_node)
            THEN Err(r.g, "'suffixes' must be a tuple with 2 strings for the left and right suffixes")
            ELSE
              LET suffix_strs == ParseStringsFromCollection(r.g, suffixes_node).strs
              IN IF ~SuffixCountOk(Len(suffix_strs))
                 THEN Err(r.g, "'suffixes' must be a tuple with 2 elements")
                 ELSE
                   LET j == CreateJoinIR(r.g, JoinParents(op, right_node), how_type,
                                         l.cols, r.cols, suffix_strs)
                   IN IF ~j.ok THEN Err(j.g, j.err) ELSE Ok(j.g, j.id)

\* ------------------------------------------------------------------- Agg
\* AggColumn with the parent index of a right-hand input.
AggColumn_Parent1(argcol_name) == ColumnIR(argcol_name, 1)

\* The Column an aggregate function is applied to: parent_op_idx is 0.
AggColumn(argcol_name) == ColumnIR(argcol_name, 0)

\* DeleteTuple that leaves the tuple in the graph.
DeleteTuple_Skip(g, tuple) == [g |-> g, ok |-> TRUE]

\* The consumed tuple is deleted: the node itself, not its children.
DeleteTuple(g, tuple) == DeleteNode(g, tuple)

\* `debug` says whether the build checks DCHECKs.  In a build that does
\* not, a tuple with fewer than 2 children is read past its end: `ub` is
\* what comes of it.
ParseNameTuple(g, tuple, debug, ub) ==
  LET children == g.nodes[tuple].children
  IN IF Len(children) # 2 /\ debug THEN Abort(g) @@ [func |-> 0]
     ELSE IF Len(children) < 2
     THEN (IF ub = "abort" THEN Abort(g) ELSE Err(g, "undefined")) @@ [func |-> 0]
     ELSE
       LET childone == children[1]
           childtwo == children[2]
       IN IF ~IsString(g, childone)
          THEN Err(g, "Expected 'str' for first tuple argument") @@ [func |-> 0]
          ELSE IF ~IsFunc(g, childtwo)
          THEN Err(g, "Expected 'func' for second tuple argument") @@ [func |-> 0]
          ELSE IF Len(g.nodes[childtwo].children) # 0
          THEN Err(g, "Unexpected aggregate function") @@ [func |-> 0]
          ELSE
            LET argcol_name == g.nodes[childone].str
                g1 == AddNode(g, AggColumn(argcol_name))
                g2 == AddArg(g1, childtwo, g.next)
                d == DeleteTuple(g2, tuple)
            IN IF ~d.ok THEN Err(d.g, "delete failed") @@ [func |-> 0]
               ELSE Ok(d.g, 0) @@ [func |-> childtwo]

\* The loop over the keyword arguments, in order; `funcs` are the
\* functions parsed so far.
RECURSIVE AggExpressions(_, _, _, _, _)
AggExpressions(g, exprs, funcs, debug, ub) ==
  IF exprs = <<>> THEN Ok(g, 0) @@ [funcs |-> funcs]
  ELSE IF ~IsTuple(g, Head(exprs))
  THEN Err(g, "Expected 'agg' kwarg argument to be a tuple") @@ [funcs |-> funcs]
  ELSE LET parsed == ParseNameTuple(g, Head(exprs), debug, ub)
       IN IF parsed.status # "ok"
          THEN [g |-> parsed.g, status |-> parsed.status, err |-> parsed.err,
                ret |-> 0, funcs |-> funcs]
          ELSE AggExpressions(parsed.g, Tail(exprs), Append(funcs, parsed.func), debug, ub)

AggHandler_Eval(g, op, names, exprs, debug, ub) ==
  LET a == AggExpressions(g, exprs, <<>>, debug, ub)
  IN IF a.status # "ok" THEN [g |-> a.g, status |-> a.status, err |-> a.err, ret |-> 0]
     ELSE Ok(AddNode(a.g, BlockingAggIR(op, <<>>, names, a.funcs)), a.g.next)

\* ------------------------------------------------------------------ Drop
\* DropConsumed that deletes the list node only.
DropConsumed_NodeOnly(g, columns_list) == DeleteNode(g, columns_list)

\* DropConsumed that deletes the children and leaves the list node.
DropConsumed_ChildrenOnly(g, columns_list) ==
  [g |-> RemoveNodes(g, Elems(g.nodes[columns_list].children)), ok |-> TRUE]

\* The consumed list is deleted with its children.
DropConsumed(g, columns_list) == DeleteNodeAndChildren(g, columns_list)

DropHandler_Eval(g, op, columns_arg) ==
  IF ~IsList(g, columns_arg)
  THEN Err(g, "Expected 'drop' kwarg argument 'columns' to be a list")
  ELSE
    LET columns == ParseStringsFromCollection(g, columns_arg)
    IN IF ~columns.ok THEN Err(g, "The elements of the list must be Strings")
       ELSE
         LET g1 == AddNode(g, DropIR(op, columns.strs))
             d == DropConsumed(g1, columns_arg)
         IN IF ~d.ok THEN Err(d.g, "delete failed") ELSE Ok(d.g, g.next)

\* ----------------------------------------------------------------- Range
\* RangeHandler_Eval that looks at `stop` before `start`.
RangeHandler_Eval_StopFirst(g, op, start_repr, stop_repr) ==
  IF ~IsExpression(g, stop_repr) THEN Err(g, "'stop' must be an expression")
  ELSE IF ~IsExpression(g, start_repr) THEN Err(g, "'start' must be an expression")
  ELSE Ok(AddNode(g, RangeIR(op, start_repr, stop_repr)), g.next)

RangeHandler_Eval(g, op, start_repr, stop_repr) ==
  IF ~IsExpression(g, start_repr) THEN Err(g, "'start' must be an expression")
  ELSE IF ~IsExpression(g, stop_repr) THEN Err(g, "'stop' must be an expression")
  ELSE Ok(AddNode(g, RangeIR(op, start_repr, stop_repr)), g.next)

\* ----------------------------------------------------------------- Limit
\* DeleteRows that leaves the integer node in the graph.
DeleteRows_Skip(g, rows_node) == [g |-> g, ok |-> TRUE]

\* DeleteRows whose deletion always fails.
DeleteRows_AlwaysFails(g, rows_node) == [g |-> g, ok |-> FALSE]

\* DeleteRows that removes the node whether or not it is referenced.
DeleteRows_Force(g, rows_node) == [g |-> RemoveNodes(g, {rows_node}), ok |-> TRUE]

\* The consumed integer node is deleted.
DeleteRows(g, rows_node) == DeleteNode(g, rows_node)

\* LimitHandler_Eval whose Dataframe wraps df's operator again.
LimitHandler_Eval_ReturnsInput(g, op, rows_node) ==
  IF ~IsInt(g, rows_node) THEN Err(g, "'n' must be an int")
  ELSE
    LET limit_value == g.nodes[rows_node].val
        g1 == AddNode(g, LimitIR(op, limit_value))
        d == DeleteRows(g1, rows_node)
    IN IF ~d.ok THEN Err(d.g, "delete failed") ELSE Ok(d.g, op)

LimitHandler_Eval(g, op, rows_node) ==
  IF ~IsInt(g, rows_node) THEN Err(g, "'n' must be an int")
  ELSE
    LET limit_value == g.nodes[rows_node].val
        g1 == AddNode(g, LimitIR(op, limit_value))
        d == DeleteRows(g1, rows_node)
    IN IF ~d.ok THEN Err(d.g, "delete failed") ELSE Ok(d.g, g.next)

\* ------------------------------------------------------------- Subscript
\* EvalFilter that wraps a copy of the expression.
EvalFilter_Copy(g, op, expr) ==
  Ok(AddNode(AddNode(g, g.nodes[expr]), FilterIR(op, g.next)), g.next + 1)

\* EvalFilter that also makes the new Filter a parent of df's operator.
EvalFilter_ParentOfInput(g, op, expr) ==
  Ok([AddNode(g, FilterIR(op, expr)) EXCEPT !.nodes[op].parents = Append(@, g.next)], g.next)

EvalFilter(g, op, expr) == Ok(AddNode(g, FilterIR(op, expr)), g.next)

EvalKeep(g, op, key) ==
  LET keep_column_names == ParseStringsFromCollection(g, key)
  IN IF ~keep_column_names.ok THEN Err(g, "The elements of the list must be Strings")
     ELSE
       LET c == CreateColumns(g, keep_column_names.strs, 0)
       IN Ok(AddNode(c.g, MapIR(op, keep_column_names.strs, c.cols, FALSE)), c.g.next)

\* SubscriptHandler_Eval that keeps columns only for a list of strings.
SubscriptHandler_Eval_StringLists(g, op, key) ==
  IF ~IsExpression(g, key)
  THEN Err(g, "subscript argument must have an expression")
  ELSE IF ListWithChildrenString(g, key) THEN EvalKeep(g, op, key)
  ELSE EvalFilter(g, op, key)

SubscriptHandler_Eval(g, op, key) ==
  IF ~IsExpression(g, key)
  THEN Err(g, "subscript argument must have an expression")
  ELSE IF IsList(g, key) THEN EvalKeep(g, op, key)
  ELSE EvalFilter(g, op, key)

\* --------------------------------------------------------------- GroupBy
\* ParseByFunction that takes a lone string for no column at all.
ParseByFunction_DropsString(g, by) ==
  IF ~ListWithChildrenString(g, by) /\ ~IsString(g, by)
  THEN [g |-> g, ok |-> FALSE, cols |-> <<>>]
  ELSE IF IsString(g, by)
  THEN [g |-> g, ok |-> TRUE, cols |-> <<>>]
  ELSE LET c == CreateColumns(g, ParseStringsFromCollection(g, by).strs, 0)
       IN [g |-> c.g, ok |-> TRUE, cols |-> c.cols]

ParseByFunction(g, by) ==
  IF ~ListWithChildrenString(g, by) /\ ~IsString(g, by)
  THEN [g |-> g, ok |-> FALSE, cols |-> <<>>]
  ELSE IF IsString(g, by)
  THEN LET c == CreateColumns(g, <<g.nodes[by].str>>, 0)
       IN [g |-> c.g, ok |-> TRUE, cols |-> c.cols]
  ELSE LET c == CreateColumns(g, ParseStringsFromCollection(g, by).strs, 0)
       IN [g |-> c.g, ok |-> TRUE, cols |-> c.cols]

GroupByHandler_Eval(g, op, by) ==
  LET groups == ParseByFunction(g, by)
  IN IF ~groups.ok THEN Err(groups.g, "'by' expected string or list of strings")
     ELSE Ok(AddNode(groups.g, GroupByIR(op, groups.cols)), groups.g.next)

\* ------------------------------------------------------------ arguments
\* An argument as written in the script: a kind, a string, a number and the
\* arguments it is made of.  Ref stands for a node that is already in the
\* graph.
Arg(k, s, v, c) == [k |-> k, s |-> s, v |-> v, c |-> c]
S(s) == Arg("String", s, 0, <<>>)
I(v) == Arg("Int", "", v, <<>>)
L(c) == Arg("List", "", 0, c)
T(c) == Arg("Tuple", "", 0, c)
F(name, c) == Arg("Func", name, 0, c)
Col(name) == Arg("Column", name, 0, <<>>)
Ref(id) == Arg("Ref", "", id, <<>>)

\* The nodes of an argument, made depth first in the order written.
RECURSIVE MakeArg(_, _), MakeArgs(_, _)
MakeArg(g, a) ==
  IF a.k = "Ref" THEN [g |-> g, id |-> a.v]
  ELSE LET cs == MakeArgs(g, a.c)
       IN [g |-> AddNode(cs.g, Node(a.k, <<>>, a.s, a.v, cs.ids, <<>>, <<>>, FALSE)),
           id |-> cs.g.next]

MakeArgs(g, as) ==
  IF as = <<>> THEN [g |-> g, ids |-> <<>>]
  ELSE LET h == MakeArg(g, Head(as))
           t == MakeArgs(h.g, Tail(as))
       IN [g |-> t.g, ids |-> <<h.id>> \o t.ids]

LeftLabels == <<"a", "b", "c", "d", "e">>
RightLabels == <<"v", "w", "x", "y", "z">>
SuffixLabels == <<"_x", "_y", "_z", "_u", "_v">>

Strings(labels, n) == [i \in 1..n |-> S(labels[i])]

\* A label, a list of labels, and what is neither.
ColArgs(labels) ==
  {S(labels[1]), I(1), L(<<S(labels[1]), I(1)>>)}
    \cup {L(Strings(labels, n)) : n \in 1..MaxLen}

RightArgs == {Ref(dataframes[d]) : d \in DOMAIN dataframes} \cup {S("right")}
HowArgs == {S("inner"), S("left"), S("outer"), S("right"), I(1)}
SuffixArgs ==
  {T(Strings(SuffixLabels, n)) : n \in 0..(MaxLen + 1)}
    \cup {L(Strings(SuffixLabels, 2)), T(<<S("_x"), I(1)>>), S("_x")}

\* The keyword arguments of agg: a (column, function) tuple, and what is
\* not one.
KwNames == <<"out1", "out2", "out3", "out4">>
AggArgs ==
  {T(<<S("a"), F("mean", <<>>)>>), T(<<S("b"), F("sum", <<>>)>>),
   T(<<S("a"), F("mean", <<Col("b")>>)>>), T(<<I(1), F("mean", <<>>)>>),
   T(<<S("a"), S("mean")>>), S("a"), T(<<S("a")>>),
   T(<<S("a"), F("mean", <<>>), S("b")>>)}

\* The builds that tell the keyword arguments apart: with DCHECKs, and
\* without them with either outcome of reading past the end of a tuple.
\* They differ only when some tuple does not have 2 children.
Builds(kwargs) ==
  IF \A i \in DOMAIN kwargs : kwargs[i].k = "Tuple" => Len(kwargs[i].c) = 2
  THEN {[debug |-> TRUE, ub |-> "abort"]}
  ELSE {[debug |-> TRUE, ub |-> "abort"], [debug |-> FALSE, ub |-> "abort"],
        [debug |-> FALSE, ub |-> "error"]}

\* The sequences of at most n elements of a set.
SeqsUpTo(set, n) == UNION {[1..k -> set] : k \in 0..n}

AnyOperator == {Ref(dataframes[d]) : d \in DOMAIN dataframes}
DropArgs ==
  {L(Strings(LeftLabels, n)) : n \in 0..MaxLen}
    \cup {L(<<S("a"), I(1)>>), S("a"), T(<<S("a")>>)}
LimitArgs == {I(0), I(5), I(-1), S("5"), F("f", <<>>)}
FilterExpr == F("greaterThan", <<Col("x"), I(0)>>)
SubscriptArgs ==
  {L(Strings(LeftLabels, n)) : n \in 0..MaxLen}
    \cup {L(<<S("a"), I(1)>>), FilterExpr, Col("x"), S("a"), T(<<S("a")>>)}
    \cup AnyOperator
GroupByArgs ==
  {L(Strings(LeftLabels, n)) : n \in 0..MaxLen}
    \cup {S("a"), L(<<S("a"), I(1)>>), T(<<S("a")>>), I(1)}
    \cup AnyOperator
RangeArgs == {I(0), S("-5m"), F("now", <<>>)} \cup AnyOperator

\* ---------------------------------------------------------------- state
Init ==
  /\ graph = [nodes |-> (1 :> MemorySourceIR("t1")) @@ (2 :> MemorySourceIR("t2")), next |-> 3]
  /\ dataframes = <<1, 2>>
  /\ last = [op |-> "none", df |-> 0, args |-> <<>>, kwargs |-> <<>>, pre |-> graph,
             status |-> "none", err |-> "", ret |-> 0]
  /\ calls = 0
  /\ objects = <<>>
  /\ org_data_retention_plugins = {}

\* A method call on the d-th Dataframe with the argument nodes `args` (and
\* keyword names `kwargs`) in the graph `pre`, returning `r`.
\* The first error ends the compile: no handler runs after it.
CanCall == calls < MaxCalls /\ last.status \in {"none", "ok"}

Call(op, d, pre, args, kwargs, r) ==
  /\ r.g.next <= MaxNodes + 1
  /\ graph' = r.g
  /\ dataframes' = IF r.status = "ok" THEN Append(dataframes, r.ret) ELSE dataframes
  /\ last' = [op |-> op, df |-> d, args |-> args, kwargs |-> kwargs, pre |-> pre,
              status |-> r.status, err |-> r.err, ret |-> r.ret]
  /\ calls' = calls + 1
  /\ UNCHANGED <<objects, org_data_retention_plugins>>

Merge ==
  /\ CanCall
  /\ \E d \in DOMAIN dataframes, right \in RightArgs, how \in HowArgs,
        left_on \in ColArgs(LeftLabels), right_on \in ColArgs(RightLabels),
        suffixes \in SuffixArgs :
       LET a == MakeArgs(graph, <<right, how, left_on, right_on, suffixes>>)
       IN /\ a.g.next <= MaxNodes + 1
          /\ Call("merge", d, a.g, a.ids, <<>>,
                  JoinHandler_Eval(a.g, dataframes[d],
                                   a.ids[1], a.ids[2], a.ids[3], a.ids[4], a.ids[5]))

Agg ==
  /\ CanCall
  /\ \E d \in DOMAIN dataframes, kwargs \in SeqsUpTo(AggArgs, MaxKwargs) :
       \E build \in Builds(kwargs) :
         LET a == MakeArgs(graph, kwargs)
             names == SubSeq(KwNames, 1, Len(kwargs))
         IN /\ a.g.next <= MaxNodes + 1
            /\ Call("agg", d, a.g, a.ids, names,
                    AggHandler_Eval(a.g, dataframes[d], names, a.ids, build.debug, build.ub))

Drop ==
  /\ CanCall
  /\ \E d \in DOMAIN dataframes, columns \in DropArgs :
       LET a == MakeArgs(graph, <<columns>>)
       IN Call("drop", d, a.g, a.ids, <<>>, DropHandler_Eval(a.g, dataframes[d], a.ids[1]))

RangeCall ==
  /\ CanCall
  /\ \E d \in DOMAIN dataframes, start \in RangeArgs, stop \in RangeArgs :
       LET a == MakeArgs(graph, <<start, stop>>)
       IN Call("range", d, a.g, a.ids, <<>>,
               RangeHandler_Eval(a.g, dataframes[d], a.ids[1], a.ids[2]))

Limit ==
  /\ CanCall
  /\ \E d \in DOMAIN dataframes, n \in LimitArgs :
       LET a == MakeArgs(graph, <<n>>)
       IN Call("head", d, a.g, a.ids, <<>>, LimitHandler_Eval(a.g, dataframes[d], a.ids[1]))

Subscript ==
  /\ CanCall
  /\ \E d \in DOMAIN dataframes, key \in SubscriptArgs :
       LET a == MakeArgs(graph, <<key>>)
       IN Call("subscript", d, a.g, a.ids, <<>>,
               SubscriptHandler_Eval(a.g, dataframes[d], a.ids[1]))

GroupBy ==
  /\ CanCall
  /\ \E d \in DOMAIN dataframes, by \in GroupByArgs :
       LET a == MakeArgs(graph, <<by>>)
       IN Call("groupby", d, a.g, a.ids, <<>>,
               GroupByHandler_Eval(a.g, dataframes[d], a.ids[1]))

NextJoin == Merge

NextAgg == Agg

SpecAgg == Init /\ [][NextAgg]_vars

NextOps == Drop \/ RangeCall \/ Limit \/ Subscript \/ GroupBy

SpecOps == Init /\ [][NextOps]_vars

SpecJoin == Init /\ [][NextJoin]_vars

Next == Merge \/ Agg \/ Drop \/ RangeCall \/ Limit \/ Subscript \/ GroupBy

\* ------------------------------------------- calls on values held by the script
\* A script variable holds the node its value was made as, so a call can be
\* given an expression node that is already in the graph, and that another
\* node may refer to.
HeldExpressions ==
  {Ref(i) : i \in {j \in Live(graph) : graph.nodes[j].kind \in ExpressionKinds}}

\* What the script writes out in the call itself.
ScriptLiterals ==
  {I(5), S("a"), L(Strings(LeftLabels, MaxLen)), T(<<S("a"), F("mean", <<>>)>>), FilterExpr}

HeldArgs == ScriptLiterals \cup HeldExpressions

MergeHeld ==
  /\ CanCall
  /\ \E d \in DOMAIN dataframes, right \in AnyOperator, left_on \in HeldArgs :
       LET a == MakeArgs(graph, <<right, S("inner"), left_on, S("v"),
                                  T(Strings(SuffixLabels, 2))>>)
       IN Call("merge", d, a.g, a.ids, <<>>,
               JoinHandler_Eval(a.g, dataframes[d],
                                a.ids[1], a.ids[2], a.ids[3], a.ids[4], a.ids[5]))

AggHeld ==
  /\ CanCall
  /\ \E d \in DOMAIN dataframes, kwarg \in HeldArgs :
       \E build \in Builds(<<kwarg>>) :
         LET a == MakeArgs(graph, <<kwarg>>)
             names == SubSeq(KwNames, 1, 1)
         IN Call("agg", d, a.g, a.ids, names,
                 AggHandler_Eval(a.g, dataframes[d], names, a.ids, build.debug, build.ub))

DropHeld ==
  /\ CanCall
  /\ \E d \in DOMAIN dataframes, columns \in HeldArgs :
       LET a == MakeArgs(graph, <<columns>>)
       IN Call("drop", d, a.g, a.ids, <<>>, DropHandler_Eval(a.g, dataframes[d], a.ids[1]))

RangeHeld ==
  /\ CanCall
  /\ \E d \in DOMAIN dataframes, start \in HeldArgs :
       LET a == MakeArgs(graph, <<start, S("-5m")>>)
       IN Call("range", d, a.g, a.ids, <<>>,
               RangeHandler_Eval(a.g, dataframes[d], a.ids[1], a.ids[2]))

LimitHeld ==
  /\ CanCall
  /\ \E d \in DOMAIN dataframes, n \in HeldArgs :
       LET a == MakeArgs(graph, <<n>>)
       IN Call("head", d, a.g, a.ids, <<>>, LimitHandler_Eval(a.g, dataframes[d], a.ids[1]))

SubscriptHeld ==
  /\ CanCall
  /\ \E d \in DOMAIN dataframes, key \in HeldArgs :
       LET a == MakeArgs(graph, <<key>>)
       IN Call("subscript", d, a.g, a.ids, <<>>,
               SubscriptHandler_Eval(a.g, dataframes[d], a.ids[1]))

GroupByHeld ==
  /\ CanCall
  /\ \E d \in DOMAIN dataframes, by \in HeldArgs :
       LET a == MakeArgs(graph, <<by>>)
       IN Call("groupby", d, a.g, a.ids, <<>>,
               GroupByHandler_Eval(a.g, dataframes[d], a.ids[1]))

NextHeld ==
  MergeHeld \/ AggHeld \/ DropHeld \/ RangeHeld \/ LimitHeld \/ SubscriptHeld \/ GroupByHeld

SpecHeld == Init /\ [][NextHeld]_vars

Spec == Init /\ [][Next]_vars

\* ------------------------------------------------------------------ OTel
\* The OTel builders take the values of their named arguments and return an
\* object or an error; they do not touch the IR graph.  A value is written
\* as an argument record; the objects are
\*   Dict            c = <<keys, values>>
\*   Endpoint        s = url, c = connection attributes
\*   Exporter        c = <<payload, expected columns>>
\*   OTelMetricData  c = <<metric payload, expected columns>>
\* A Float stands for a quantile in hundredths.
Fl(v) == Arg("Float", "", v, <<>>)
TimeLit(v) == Arg("Time", "", v, <<>>)
NoneObject == Arg("None", "", 0, <<>>)
DictObject(keys, values) == Arg("Dict", "", 0, <<keys, values>>)
EndpointConfig(url, attributes) == Arg("Endpoint", url, 0, attributes)
Exporter(pb, columns) == Arg("Exporter", "", 0, <<pb, columns>>)
OTelMetricData(pb, columns) == Arg("OTelMetricData", "", 0, <<pb, columns>>)
\* An argument the call does not give.
Omitted == Arg("Omitted", "", 0, <<>>)

IsDict(a) == a.k = "Dict"

\* What a builder returns.
Built(obj) == [status |-> "ok", err |-> <<>>, ret |-> obj]
Failed(msg) == [status |-> "error", err |-> msg, ret |-> NoneObject]
\* A failed CHECK ends the process.
Crashed == [status |-> "abort", err |-> <<>>, ret |-> NoneObject]

\* GetArgAs<Kind>: the argument when it is a node of that kind.
GetArgAs(kind, a) == a.k = kind

\* OTelSpanKind
SPAN_KIND_UNSPECIFIED == 0
SPAN_KIND_INTERNAL == 1
SPAN_KIND_SERVER == 2

\* OTelSpanKind_IsValid that also takes the value after the last one.
OTelSpanKind_IsValid_OneMore(v) ==
  v \in {SPAN_KIND_UNSPECIFIED, SPAN_KIND_INTERNAL, SPAN_KIND_SERVER, SPAN_KIND_SERVER + 1}

OTelSpanKind_IsValid(v) ==
  v \in {SPAN_KIND_UNSPECIFIED, SPAN_KIND_INTERNAL, SPAN_KIND_SERVER}

ExpectedColumn(node, role, name, types) ==
  [node |-> node, role |-> role, name |-> name, types |-> types]

\* TimeColumnArg that takes any scalar for a time argument.
TimeColumnArg_AnyScalar(a) == a.k \in {"String", "Int", "Time"}

\* A time argument is read as a string node.
TimeColumnArg(a) == GetArgAs("String", a)

\* The loop over a dictionary's keys: the i-th key is read as a `key_kind`
\* node and the i-th value as a string node.  Reading a value that is not
\* there is undefined: `ub` is what comes of it.
RECURSIVE DictPairs(_, _, _, _, _, _)
DictPairs(keys, values, key_kind, i, pairs, ub) ==
  IF i > Len(keys) THEN [status |-> "ok", err |-> <<>>, pairs |-> pairs]
  ELSE IF ~GetArgAs(key_kind, keys[i])
  THEN [status |-> "error", err |-> <<"key", i>>, pairs |-> pairs]
  ELSE IF i > Len(values)
  THEN (IF ub = "garbage"
        THEN DictPairs(keys, values, key_kind, i + 1,
                       Append(pairs, [key |-> keys[i], val |-> S("?")]), ub)
        ELSE [status |-> ub, err |-> <<"value", i>>, pairs |-> pairs])
  ELSE IF ~GetArgAs("String", values[i])
  THEN [status |-> "error", err |-> <<"value", i>>, pairs |-> pairs]
  ELSE DictPairs(keys, values, key_kind, i + 1,
                 Append(pairs, [key |-> keys[i], val |-> values[i]]), ub)

\* The attributes of a payload, and the expected column of each.
Attributes(pairs) ==
  [i \in DOMAIN pairs |-> [name |-> pairs[i].key.s, value_column |-> pairs[i].val.s]]
AttributeColumns(pairs) ==
  [i \in DOMAIN pairs |-> ExpectedColumn(pairs[i].val, "attribute", pairs[i].val.s, {"STRING"})]

\* ParseEndpointConfig that lets the default None through.
ParseEndpointConfig_AcceptsNone(endpoint) == endpoint.k \in {"Endpoint", "None"}

\* The endpoint is read only from an object of the Endpoint type.
ParseEndpointConfig(endpoint) == endpoint.k = "Endpoint"

\* SpanColumns with the status column put first.
SpanColumns_StatusFirst(args) ==
  <<ExpectedColumn(args.status, "status", args.status.s, {"INT64"}),
    ExpectedColumn(args.span_id, "span_id", args.span_id.s, {"STRING"}),
    ExpectedColumn(args.parent_span_id, "parent_span_id", args.parent_span_id.s, {"STRING"}),
    ExpectedColumn(args.trace_id, "trace_id", args.trace_id.s, {"STRING"}),
    ExpectedColumn(args.start_time_unix_nano, "start_time_unix_nano",
                   args.start_time_unix_nano.s, {"TIME64NS"}),
    ExpectedColumn(args.end_time_unix_nano, "end_time_unix_nano",
                   args.end_time_unix_nano.s, {"TIME64NS"})>>

\* The expected columns of a span before its attributes, in the order they
\* are pushed.
SpanColumns(args) ==
  <<ExpectedColumn(args.span_id, "span_id", args.span_id.s, {"STRING"}),
    ExpectedColumn(args.parent_span_id, "parent_span_id", args.parent_span_id.s, {"STRING"}),
    ExpectedColumn(args.trace_id, "trace_id", args.trace_id.s, {"STRING"}),
    ExpectedColumn(args.status, "status", args.status.s, {"INT64"}),
    ExpectedColumn(args.start_time_unix_nano, "start_time_unix_nano",
                   args.start_time_unix_nano.s, {"TIME64NS"}),
    ExpectedColumn(args.end_time_unix_nano, "end_time_unix_nano",
                   args.end_time_unix_nano.s, {"TIME64NS"})>>

OTelSpanDefinition(args) ==
  IF ~ParseEndpointConfig(args.endpoint)
  THEN Failed(<<"expected Endpoint type for 'endpoint' arg">>)
  ELSE IF ~GetArgAs("String", args.name) THEN Failed(<<"name">>)
  ELSE IF ~GetArgAs("String", args.span_id) THEN Failed(<<"span_id">>)
  ELSE IF ~GetArgAs("String", args.parent_span_id) THEN Failed(<<"parent_span_id">>)
  ELSE IF ~GetArgAs("String", args.trace_id) THEN Failed(<<"trace_id">>)
  ELSE IF ~GetArgAs("String", args.status) THEN Failed(<<"status">>)
  ELSE IF ~TimeColumnArg(args.start_time_unix_nano) THEN Failed(<<"start_time_unix_nano">>)
  ELSE IF ~TimeColumnArg(args.end_time_unix_nano) THEN Failed(<<"end_time_unix_nano">>)
  ELSE IF ~GetArgAs("Int", args.kind) THEN Failed(<<"kind">>)
  ELSE IF ~OTelSpanKind_IsValid(args.kind.v)
  THEN Failed(<<"Kind value '$0' is not a valid option", args.kind.v>>)
  ELSE IF ~IsDict(args.attributes)
  THEN Failed(<<"Expected attributes to be a dictionary">>)
  ELSE
    LET values == args.attributes.c[2]
        keys == args.attributes.c[1]
    IN IF Len(values) # Len(keys) THEN Crashed
       ELSE
         LET p == DictPairs(keys, values, "String", 1, <<>>, "abort")
         IN IF p.status # "ok" THEN Failed(p.err)
            ELSE Built(Exporter(
                   [endpoint_config |-> args.endpoint,
                    kind |-> "span",
                    name |-> args.name.s,
                    span_id_column |-> args.span_id.s,
                    parent_span_id_column |-> args.parent_span_id.s,
                    trace_id_column |-> args.trace_id.s,
                    status_column |-> args.status.s,
                    start_time_unix_nano_column |-> args.start_time_unix_nano.s,
                    end_time_unix_nano_column |-> args.end_time_unix_nano.s,
                    span_kind |-> args.kind.v,
                    attributes |-> Attributes(p.pairs)],
                   SpanColumns(args) \o AttributeColumns(p.pairs)))

OTelMetricDefinition(args) ==
  IF args.data.k # "OTelMetricData"
  THEN Failed(<<"Expected an OTelMetricData type">>)
  ELSE IF ~ParseEndpointConfig(args.endpoint)
  THEN Failed(<<"expected Endpoint type for 'endpoint' arg">>)
  ELSE IF ~GetArgAs("String", args.name) THEN Failed(<<"name">>)
  ELSE IF ~GetArgAs("String", args.description) THEN Failed(<<"description">>)
  ELSE IF ~IsDict(args.attributes)
  THEN Failed(<<"Expected attributes to be a dictionary">>)
  ELSE
    LET values == args.attributes.c[2]
        keys == args.attributes.c[1]
    IN IF Len(values) # Len(keys) THEN Crashed
       ELSE
         LET p == DictPairs(keys, values, "String", 1, <<>>, "abort")
         IN IF p.status # "ok" THEN Failed(p.err)
            ELSE Built(Exporter(
                   [endpoint_config |-> args.endpoint,
                    kind |-> "metric",
                    metric |-> args.data.c[1],
                    name |-> args.name.s,
                    description |-> args.description.s,
                    attributes |-> Attributes(p.pairs)],
                   args.data.c[2] \o AttributeColumns(p.pairs)))

OTelGaugeDefinition(args) ==
  IF ~GetArgAs("String", args.value) THEN Failed(<<"value">>)
  ELSE IF ~TimeColumnArg(args.start_time_unix_nano) THEN Failed(<<"start_time_unix_nano">>)
  ELSE IF ~TimeColumnArg(args.time_unix_nano) THEN Failed(<<"time_unix_nano">>)
  ELSE Built(OTelMetricData(
         [kind |-> "gauge",
          value_column |-> args.value.s,
          start_time_unix_nano_column |-> args.start_time_unix_nano.s,
          time_unix_nano_column |-> args.time_unix_nano.s],
         <<ExpectedColumn(args.value, "value", args.value.s, {"INT64", "FLOAT64"}),
           ExpectedColumn(args.start_time_unix_nano, "start_time_unix_nano",
                          args.start_time_unix_nano.s, {"TIME64NS"}),
           ExpectedColumn(args.time_unix_nano, "time_unix_nano",
                          args.time_unix_nano.s, {"TIME64NS"})>>))

\* The quantiles of a summary payload, and the expected column of each.
QuantileValues(pairs) ==
  [i \in DOMAIN pairs |-> [quantile |-> pairs[i].key.v, value_column |-> pairs[i].val.s]]
QuantileColumns(pairs) ==
  [i \in DOMAIN pairs |->
     ExpectedColumn(pairs[i].val, <<"quantile", pairs[i].key.v>>, pairs[i].val.s, {"FLOAT64"})]

OTelSummaryDefinition(args) ==
  IF ~GetArgAs("String", args.count) THEN Failed(<<"count">>)
  ELSE IF ~GetArgAs("String", args.sum) THEN Failed(<<"sum">>)
  ELSE IF ~IsDict(args.quantile_values)
  THEN Failed(<<"Expected quantile_values to be a dictionary">>)
  ELSE
    LET values == args.quantile_values.c[2]
        keys == args.quantile_values.c[1]
    IN IF Len(values) # Len(keys) THEN Crashed
       ELSE
         LET p == DictPairs(keys, values, "Float", 1, <<>>, "abort")
         IN IF p.status # "ok" THEN Failed(p.err)
            ELSE IF ~TimeColumnArg(args.start_time_unix_nano)
            THEN Failed(<<"start_time_unix_nano">>)
            ELSE IF ~TimeColumnArg(args.time_unix_nano) THEN Failed(<<"time_unix_nano">>)
            ELSE Built(OTelMetricData(
                   [kind |-> "summary",
                    count_column |-> args.count.s,
                    sum_column |-> args.sum.s,
                    quantile_values |-> QuantileValues(p.pairs),
                    start_time_unix_nano_column |-> args.start_time_unix_nano.s,
                    time_unix_nano_column |-> args.time_unix_nano.s],
                   <<ExpectedColumn(args.count, "count", args.count.s, {"FLOAT64"}),
                     ExpectedColumn(args.sum, "sum", args.sum.s, {"FLOAT64"})>>
                     \o QuantileColumns(p.pairs)
                     \o <<ExpectedColumn(args.start_time_unix_nano, "start_time_unix_nano",
                                         args.start_time_unix_nano.s, {"TIME64NS"}),
                          ExpectedColumn(args.time_unix_nano, "time_unix_nano",
                                         args.time_unix_nano.s, {"TIME64NS"})>>))

\* The keys are gone through without a look at the number of values.
EndpointConfigConstructor(args, ub) ==
  IF ~GetArgAs("String", args.url) THEN Failed(<<"url">>)
  ELSE IF ~IsDict(args.attributes)
  THEN Failed(<<"expected dict() for 'attributes' arg">>)
  ELSE
    LET p == DictPairs(args.attributes.c[1], args.attributes.c[2], "String", 1, <<>>, ub)
    IN IF p.status = "abort" THEN Crashed
       ELSE IF p.status # "ok" THEN Failed(p.err)
       ELSE Built(EndpointConfig(args.url.s, Attributes(p.pairs)))

\* ------------------------------------------------------- OTel arguments
\* The value of an argument that the call does not give.
WithDefault(a, default) == IF a.k = "Omitted" THEN default ELSE a

SpanDefaults ==
  [span_id |-> S(""), parent_span_id |-> S(""), trace_id |-> S(""), status |-> S(""),
   kind |-> I(2), attributes |-> DictObject(<<>>, <<>>), endpoint |-> NoneObject]
MetricDefaults == [attributes |-> DictObject(<<>>, <<>>), endpoint |-> NoneObject]
EndpointDefaults == [attributes |-> DictObject(<<>>, <<>>)]

AttrKeys == <<S("k1"), S("k2"), S("k3"), S("k4")>>
AttrValues == <<S("c1"), S("c2"), S("c3"), S("c4")>>
QuantileKeys == <<Fl(50), Fl(99), Fl(90), Fl(10)>>

\* Dictionaries with up to MaxLen keys and up to MaxLen values, a key and a
\* value of a wrong kind, and what is no dictionary.
DictArgs(keys) ==
  {DictObject(SubSeq(keys, 1, n), SubSeq(AttrValues, 1, m)) : n \in 0..MaxLen, m \in 0..MaxLen}
    \cup {DictObject(<<I(1)>>, <<S("c1")>>), DictObject(<<keys[1]>>, <<I(1)>>), NoneObject}

TimeArgs(name) == {S(name), I(1), TimeLit(1)}
EndpointArgs == {Omitted, EndpointConfig("otel:4317", <<>>)}
KindArgs == {Omitted, I(0), I(1), I(2), I(3), I(-1), S("2")}

\* The builds that tell an endpoint's attributes apart: they differ only
\* when a value is read that is not there.
EndpointBuilds(attributes) ==
  IF IsDict(attributes) /\ Len(attributes.c[1]) > Len(attributes.c[2])
  THEN {"abort", "error", "garbage"}
  ELSE {"abort"}

\* A gauge to hand to metric.
GaugeData ==
  OTelGaugeDefinition([value |-> S("latency"), start_time_unix_nano |-> S("t0"),
                       time_unix_nano |-> S("t1")]).ret

\* ----------------------------------------------------------- OTel actions
\* One builder call with the arguments `args`, returning `r`.
Build(op, args, r) ==
  /\ graph' = graph
  /\ dataframes' = dataframes
  /\ last' = [op |-> op, df |-> 0, args |-> args, kwargs |-> <<>>, pre |-> graph,
              status |-> r.status, err |-> r.err, ret |-> r.ret]
  /\ calls' = calls + 1
  /\ UNCHANGED <<objects, org_data_retention_plugins>>

Span ==
  /\ last.op = "none"
  /\ \E name \in {S("my_span"), I(1)},
        span_id \in {Omitted, S("span"), I(1)},
        parent_span_id \in {Omitted, S("parent")},
        trace_id \in {Omitted, S("trace")},
        status \in {Omitted, S("code"), I(1)},
        start_time_unix_nano \in TimeArgs("t0"),
        end_time_unix_nano \in TimeArgs("t1"),
        kind \in KindArgs,
        attributes \in DictArgs(AttrKeys) \cup {Omitted},
        endpoint \in EndpointArgs :
       LET args == [name |-> name, span_id |-> span_id, parent_span_id |-> parent_span_id,
                    trace_id |-> trace_id, status |-> status,
                    start_time_unix_nano |-> start_time_unix_nano,
                    end_time_unix_nano |-> end_time_unix_nano,
                    kind |-> kind, attributes |-> attributes, endpoint |-> endpoint]
       IN Build("span", args,
                OTelSpanDefinition(
                  [a \in DOMAIN args |->
                     IF a \in DOMAIN SpanDefaults THEN WithDefault(args[a], SpanDefaults[a])
                     ELSE args[a]]))

Metric ==
  /\ last.op = "none"
  /\ \E name \in {S("my_metric"), I(1)}, description \in {S("text"), I(1)},
        data \in {GaugeData, NoneObject},
        attributes \in DictArgs(AttrKeys) \cup {Omitted},
        endpoint \in EndpointArgs :
       LET args == [name |-> name, description |-> description, data |-> data,
                    attributes |-> attributes, endpoint |-> endpoint]
       IN Build("metric", args,
                OTelMetricDefinition(
                  [args EXCEPT !.attributes = WithDefault(@, MetricDefaults.attributes),
                               !.endpoint = WithDefault(@, MetricDefaults.endpoint)]))

Gauge ==
  /\ last.op = "none"
  /\ \E value \in {S("latency"), I(1)},
        start_time_unix_nano \in TimeArgs("t0"),
        time_unix_nano \in TimeArgs("t1") :
       LET args == [value |-> value, start_time_unix_nano |-> start_time_unix_nano,
                    time_unix_nano |-> time_unix_nano]
       IN Build("gauge", args, OTelGaugeDefinition(args))

Summary ==
  /\ last.op = "none"
  /\ \E count \in {S("n"), I(1)}, sum \in {S("total"), I(1)},
        quantile_values \in DictArgs(QuantileKeys),
        start_time_unix_nano \in TimeArgs("t0"),
        time_unix_nano \in TimeArgs("t1") :
       LET args == [count |-> count, sum |-> sum, quantile_values |-> quantile_values,
                    start_time_unix_nano |-> start_time_unix_nano,
                    time_unix_nano |-> time_unix_nano]
       IN Build("summary", args, OTelSummaryDefinition(args))

Endpoint ==
  /\ last.op = "none"
  /\ \E url \in {S("otel:4317"), I(1)}, attributes \in DictArgs(AttrKeys) \cup {Omitted} :
       \E ub \in EndpointBuilds(attributes) :
         LET args == [url |-> url, attributes |-> attributes]
         IN Build("endpoint", args,
                  EndpointConfigConstructor(
                    [args EXCEPT !.attributes = WithDefault(@, EndpointDefaults.attributes)], ub))

NextOTel == Span \/ Metric \/ Gauge \/ Summary \/ Endpoint

SpecOTel == Init /\ [][NextOTel]_vars

\* ------------------------------------------------------- reading a call
\* The argument is a label or a list of labels.
IsLabelArg(g, id) ==
  \/ g.nodes[id].kind = "String"
  \/ /\ g.nodes[id].kind = "List"
     /\ \A i \in DOMAIN g.nodes[id].children :
          g.nodes[g.nodes[id].children[i]].kind = "String"

\* The labels such an argument gives, in order.
Labels(g, id) ==
  IF g.nodes[id].kind = "String" THEN <<g.nodes[id].str>>
  ELSE [i \in DOMAIN g.nodes[id].children |-> g.nodes[g.nodes[id].children[i]].str]

\* The node is a Column of that name and parent index.
IsColumnNamed(node, name, parent_idx) ==
  node.kind = "Column" /\ node.str = name /\ node.val = parent_idx

\* The nodes of one kind that the last call added, and the nodes it removed.
Created(kind) == {i \in Live(graph) \ Live(last.pre) : graph.nodes[i].kind = kind}
CreatedNodes == Live(graph) \ Live(last.pre)
DeletedNodes == Live(last.pre) \ Live(graph)

\* The operator the receiving Dataframe of the last call wraps.
DfOp == dataframes[last.df]

MergeRightValid == last.pre.nodes[last.args[1]].kind \in OperatorKinds
MergeHowValid ==
  /\ last.pre.nodes[last.args[2]].kind = "String"
  /\ last.pre.nodes[last.args[2]].str \in {"inner", "left", "outer"}
MergeOnValid ==
  /\ IsLabelArg(last.pre, last.args[3])
  /\ IsLabelArg(last.pre, last.args[4])
  /\ Len(Labels(last.pre, last.args[3])) = Len(Labels(last.pre, last.args[4]))
MergeSuffixesValid ==
  /\ last.pre.nodes[last.args[5]].kind \in {"List", "Tuple"}
  /\ Len(last.pre.nodes[last.args[5]].children) = 2
  /\ \A i \in DOMAIN last.pre.nodes[last.args[5]].children :
       last.pre.nodes[last.pre.nodes[last.args[5]].children[i]].kind = "String"

\* ---------------------------------------------------------------- claims
\* C1: a merge whose left_on and right_on are a single label or lists of
\* labels of the same length N yields a Join node with exactly N equality
\* conditions, the i-th pairing a Column named left_on[i] with parent index
\* 0 with a Column named right_on[i] with parent index 1.
JoinColumnCount ==
  (last.op = "merge" /\ last.status = "ok" /\ MergeOnValid) =>
    LET lo == Labels(last.pre, last.args[3])
        ro == Labels(last.pre, last.args[4])
        join == graph.nodes[last.ret]
    IN /\ Len(join.children) = Len(lo)
       /\ Len(join.aux) = Len(ro)
       /\ Len(EqualityConditions(join)) = Len(lo)
       /\ \A i \in DOMAIN lo :
            /\ IsColumnNamed(graph.nodes[EqualityConditions(join)[i][1]], lo[i], 0)
            /\ IsColumnNamed(graph.nodes[EqualityConditions(join)[i][2]], ro[i], 1)

\* A merge on two lists of two labels each has succeeded.
JoinColumnCountWitness ==
  /\ last.op = "merge" /\ last.status = "ok"
  /\ last.pre.nodes[last.args[3]].kind = "List"
  /\ Len(graph.nodes[last.ret].children) = 2

\* C2: with the other arguments valid, merge succeeds exactly when
\* suffixes is a tuple or list of exactly 2 strings; otherwise it returns
\* an error and creates no Join node.
SuffixArity ==
  (last.op = "merge" /\ MergeRightValid /\ MergeHowValid /\ MergeOnValid) =>
    /\ (last.status = "ok") <=> MergeSuffixesValid
    /\ ~MergeSuffixesValid => (last.status = "error" /\ Created("Join") = {})

\* A merge with valid arguments and three suffixes has returned an error.
SuffixArityWitness ==
  /\ last.op = "merge" /\ MergeRightValid /\ MergeHowValid /\ MergeOnValid
  /\ Len(last.pre.nodes[last.args[5]].children) = 3
  /\ last.status = "error"

\* C3: a successful merge returns a new Dataframe wrapping a new Join node
\* whose parents are df's operator and then `right`, whose type is the one
\* `how` names and which has one equality condition per left_on/right_on
\* pair.
MergeReturnsJoin ==
  (last.op = "merge" /\ last.status = "ok") =>
    LET join == graph.nodes[last.ret]
        how == last.pre.nodes[last.args[2]].str
    IN /\ last.ret \in CreatedNodes
       /\ Created("Join") = {last.ret}
       /\ dataframes[Len(dataframes)] = last.ret
       /\ join.parents = <<DfOp, last.args[1]>>
       /\ how = "inner" => join.val = INNER
       /\ how = "left" => join.val = LEFT_OUTER
       /\ how = "outer" => join.val = FULL_OUTER
       /\ Len(join.children) = Len(Labels(last.pre, last.args[3]))
       /\ Len(join.aux) = Len(Labels(last.pre, last.args[4]))

\* An inner merge of two different operators has succeeded.
MergeReturnsJoinWitness ==
  /\ last.op = "merge" /\ last.status = "ok"
  /\ last.pre.nodes[last.args[2]].str = "inner"
  /\ DfOp # last.args[1]

\* C4: when left_on and right_on give label lists of different lengths,
\* merge returns an error and adds no Join node; every Join node pairs its
\* columns position by position.
MergeLengthMismatch ==
  /\ (/\ last.op = "merge"
      /\ IsLabelArg(last.pre, last.args[3])
      /\ IsLabelArg(last.pre, last.args[4])
      /\ Len(Labels(last.pre, last.args[3])) # Len(Labels(last.pre, last.args[4])))
       => (last.status = "error" /\ Created("Join") = {})
  /\ \A i \in Live(graph) :
       graph.nodes[i].kind = "Join" =>
         Len(graph.nodes[i].children) = Len(graph.nodes[i].aux)

\* A merge with otherwise valid arguments, two left labels and one right
\* label has returned an error.
MergeLengthMismatchWitness ==
  /\ last.op = "merge" /\ MergeRightValid /\ MergeHowValid /\ MergeSuffixesValid
  /\ IsLabelArg(last.pre, last.args[3])
  /\ IsLabelArg(last.pre, last.args[4])
  /\ Len(Labels(last.pre, last.args[3])) = 2
  /\ Len(Labels(last.pre, last.args[4])) = 1
  /\ last.status = "error"

\* The i-th keyword argument of an agg call is a 2-element tuple; it is a
\* (string, function without arguments) tuple.
IsAggTuple(i) ==
  /\ last.pre.nodes[last.args[i]].kind = "Tuple"
  /\ Len(last.pre.nodes[last.args[i]].children) = 2
IsValidAggTuple(i) ==
  /\ IsAggTuple(i)
  /\ last.pre.nodes[last.pre.nodes[last.args[i]].children[1]].kind = "String"
  /\ last.pre.nodes[last.pre.nodes[last.args[i]].children[2]].kind = "Func"
  /\ last.pre.nodes[last.pre.nodes[last.args[i]].children[2]].children = <<>>

\* C5: agg with k keyword arguments, each a (string c, function without
\* arguments) tuple, yields one BlockingAgg node with parent df's operator,
\* no group columns and k aggregate expressions named by the keywords, each
\* function having got exactly one new Column named c with parent index 0;
\* a 2-element tuple that is not of that form makes agg return an error.
AggDesugaring ==
  (last.op = "agg" /\ \A i \in DOMAIN last.args : IsAggTuple(i)) =>
    IF \A i \in DOMAIN last.args : IsValidAggTuple(i)
    THEN /\ last.status = "ok"
         /\ Created("BlockingAgg") = {last.ret}
         /\ graph.nodes[last.ret].parents = <<DfOp>>
         /\ graph.nodes[last.ret].aux = <<>>
         /\ graph.nodes[last.ret].names = last.kwargs
         /\ Len(graph.nodes[last.ret].children) = Len(last.args)
         /\ Cardinality(Created("Column")) = Len(last.args)
         /\ \A i \in DOMAIN last.args :
              LET tuple == last.pre.nodes[last.args[i]]
                  func == tuple.children[2]
              IN /\ graph.nodes[last.ret].children[i] = func
                 /\ Len(graph.nodes[func].children) = 1
                 /\ graph.nodes[func].children[1] \in CreatedNodes
                 /\ IsColumnNamed(graph.nodes[graph.nodes[func].children[1]],
                                  last.pre.nodes[tuple.children[1]].str, 0)
    ELSE last.status = "error" /\ Created("BlockingAgg") = {}

\* An agg with two keyword arguments has succeeded.
AggDesugaringWitness ==
  /\ last.op = "agg" /\ last.status = "ok"
  /\ Len(last.args) = 2
  /\ \A i \in DOMAIN last.args : IsValidAggTuple(i)

\* C6 as stated: after a successful agg the keyword tuples are gone and the
\* node count has gone down by the size of the tuple subtrees.
AggNodeCountDecreases ==
  (last.op = "agg" /\ last.status = "ok" /\ Len(last.args) >= 1) =>
    /\ \A i \in DOMAIN last.args : last.args[i] \notin Live(graph)
    /\ Cardinality(Live(graph)) =
         Cardinality(Live(last.pre))
           - Cardinality(UNION {Subtree(last.pre, last.args[i]) : i \in DOMAIN last.args})

\* C6, amended: after a successful agg the keyword tuples are gone and are
\* the only nodes deleted; the children of each tuple are still in the
\* graph, and with the new Columns and the BlockingAgg node the graph has
\* one node more than before the call.
AggDeletesOnlyTuples ==
  (last.op = "agg" /\ last.status = "ok") =>
    /\ DeletedNodes = Elems(last.args)
    /\ \A i \in DOMAIN last.args :
         Elems(last.pre.nodes[last.args[i]].children) \subseteq Live(graph)
    /\ Cardinality(Live(graph)) = Cardinality(Live(last.pre)) + 1

\* An agg with one keyword argument has succeeded.
AggDeletesOnlyTuplesWitness ==
  /\ last.op = "agg" /\ last.status = "ok"
  /\ Len(last.args) = 1
  /\ last.args[1] \notin Live(graph)

\* C7: after a successful head the graph has a Limit node holding the
\* value of the integer node given as n, with df's operator as parent, and
\* that integer node is gone; when n is not an integer node head returns an
\* error and creates and deletes nothing.
LimitConsumesArgument ==
  (last.op = "head") =>
    /\ last.status = "ok" =>
         /\ last.pre.nodes[last.args[1]].kind = "Int"
         /\ CreatedNodes = {last.ret}
         /\ graph.nodes[last.ret].kind = "Limit"
         /\ graph.nodes[last.ret].val = last.pre.nodes[last.args[1]].val
         /\ graph.nodes[last.ret].parents = <<DfOp>>
         /\ last.args[1] \notin Live(graph)
    /\ last.pre.nodes[last.args[1]].kind # "Int" =>
         (last.status = "error" /\ CreatedNodes = {} /\ DeletedNodes = {})

\* head(5) has succeeded.
LimitConsumesArgumentWitness ==
  /\ last.op = "head" /\ last.status = "ok"
  /\ graph.nodes[last.ret].val = 5

\* C8: df[key] with key a list of m strings yields a Map node with parent
\* df's operator, keep_input_columns false and m output expressions, the
\* i-th a Column named key[i] with parent index 0; df[expr] with expr a
\* comparison yields a Filter node with parent df's operator wrapping that
\* very node, creating no Column and deleting nothing.
SubscriptDispatch ==
  (last.op = "subscript") =>
    LET key == last.args[1]
    IN /\ (last.pre.nodes[key].kind = "List" /\ IsLabelArg(last.pre, key)) =>
            /\ last.status = "ok"
            /\ graph.nodes[last.ret].kind = "Map"
            /\ graph.nodes[last.ret].parents = <<DfOp>>
            /\ graph.nodes[last.ret].flag = FALSE
            /\ graph.nodes[last.ret].names = Labels(last.pre, key)
            /\ Len(graph.nodes[last.ret].children) = Len(Labels(last.pre, key))
            /\ \A i \in DOMAIN graph.nodes[last.ret].children :
                 /\ graph.nodes[last.ret].children[i] \in CreatedNodes
                 /\ IsColumnNamed(graph.nodes[graph.nodes[last.ret].children[i]],
                                  Labels(last.pre, key)[i], 0)
       /\ last.pre.nodes[key].kind = "Func" =>
            /\ last.status = "ok"
            /\ graph.nodes[last.ret].kind = "Filter"
            /\ graph.nodes[last.ret].parents = <<DfOp>>
            /\ graph.nodes[last.ret].children = <<key>>
            /\ graph.nodes[key] = last.pre.nodes[key]
            /\ CreatedNodes = {last.ret}
            /\ Created("Column") = {}
            /\ DeletedNodes = {}

\* A subscript with a list of two strings has succeeded.
SubscriptDispatchWitness ==
  /\ last.op = "subscript" /\ last.status = "ok"
  /\ last.pre.nodes[last.args[1]].kind = "List"
  /\ Len(graph.nodes[last.ret].children) = 2

\* C9: drop with a list of strings yields a Drop node with parent df's
\* operator holding those names in list order, and the list node and its
\* string children are gone; when columns is not a list drop returns an
\* error and creates and deletes nothing.
DropConsumesList ==
  (last.op = "drop") =>
    LET columns == last.args[1]
    IN /\ (last.pre.nodes[columns].kind = "List" /\ IsLabelArg(last.pre, columns)) =>
            /\ last.status = "ok"
            /\ CreatedNodes = {last.ret}
            /\ graph.nodes[last.ret].kind = "Drop"
            /\ graph.nodes[last.ret].parents = <<DfOp>>
            /\ graph.nodes[last.ret].names = Labels(last.pre, columns)
            /\ DeletedNodes = {columns} \cup Elems(last.pre.nodes[columns].children)
       /\ last.pre.nodes[columns].kind # "List" =>
            (last.status = "error" /\ CreatedNodes = {} /\ DeletedNodes = {})

\* A drop of two columns has succeeded.
DropConsumesListWitness ==
  /\ last.op = "drop" /\ last.status = "ok"
  /\ Len(graph.nodes[last.ret].names) = 2

\* C10: groupby with a single string yields a GroupBy node with one group
\* Column of that name, with a list of m strings m group Columns in list
\* order; every group Column has parent index 0 and the node's only parent
\* is df's operator; any other `by` yields an error and no GroupBy node.
GroupByColumns ==
  (last.op = "groupby") =>
    LET by == last.args[1]
    IN IF IsLabelArg(last.pre, by)
       THEN /\ last.status = "ok"
            /\ Created("GroupBy") = {last.ret}
            /\ graph.nodes[last.ret].parents = <<DfOp>>
            /\ Len(graph.nodes[last.ret].children) = Len(Labels(last.pre, by))
            /\ \A i \in DOMAIN graph.nodes[last.ret].children :
                 /\ graph.nodes[last.ret].children[i] \in CreatedNodes
                 /\ IsColumnNamed(graph.nodes[graph.nodes[last.ret].children[i]],
                                  Labels(last.pre, by)[i], 0)
       ELSE last.status = "error" /\ Created("GroupBy") = {}

\* A groupby with a single string has succeeded.
GroupByColumnsWitness ==
  /\ last.op = "groupby" /\ last.status = "ok"
  /\ last.pre.nodes[last.args[1]].kind = "String"
  /\ Len(graph.nodes[last.ret].children) = 1

\* C11: a range call whose start and stop are both expression nodes creates
\* exactly one node, the Range operator with parent df's operator, which
\* refers to the very start and stop nodes, and deletes or changes no node;
\* when start is not an expression the error names 'start', otherwise when
\* stop is not an expression the error names 'stop', and the graph is as it
\* was.
RangeRetainsExpressions ==
  (last.op = "range") =>
    LET start == last.args[1]
        stop == last.args[2]
        startIsExpr == last.pre.nodes[start].kind \in ExpressionKinds
        stopIsExpr == last.pre.nodes[stop].kind \in ExpressionKinds
    IN /\ (startIsExpr /\ stopIsExpr) =>
            /\ last.status = "ok"
            /\ CreatedNodes = {last.ret}
            /\ graph.nodes[last.ret].kind = "Range"
            /\ graph.nodes[last.ret].parents = <<DfOp>>
            /\ graph.nodes[last.ret].children = <<start, stop>>
            /\ DeletedNodes = {}
            /\ \A i \in Live(last.pre) : graph.nodes[i] = last.pre.nodes[i]
       /\ ~startIsExpr =>
            /\ last.status = "error"
            /\ last.err = "'start' must be an expression"
            /\ graph = last.pre
       /\ (startIsExpr /\ ~stopIsExpr) =>
            /\ last.status = "error"
            /\ last.err = "'stop' must be an expression"
            /\ graph = last.pre

\* A range call with a function as start and a string as stop has succeeded.
RangeRetainsExpressionsWitness ==
  /\ last.op = "range" /\ last.status = "ok"
  /\ last.pre.nodes[last.args[1]].kind = "Func"
  /\ last.pre.nodes[last.args[2]].kind = "String"
  /\ graph.nodes[last.ret].children = last.args

\* The literal nodes an argument is made of: the node and, for a list or a
\* tuple, its children.
LiteralNodes(g, id) ==
  IF g.nodes[id].kind \in {"List", "Tuple"} THEN {id} \cup Elems(g.nodes[id].children)
  ELSE {id}

\* The literal argument nodes whose values the last call folded into the
\* operator it made.
ConsumedLiterals ==
  CASE last.op = "head" -> {last.args[1]}
    [] last.op = "drop" -> LiteralNodes(last.pre, last.args[1])
    [] last.op = "agg" -> Elems(last.args)
    [] last.op = "subscript" ->
         IF last.pre.nodes[last.args[1]].kind = "List"
         THEN LiteralNodes(last.pre, last.args[1]) ELSE {}
    [] last.op = "groupby" -> LiteralNodes(last.pre, last.args[1])
    [] last.op = "merge" ->
         UNION {LiteralNodes(last.pre, last.args[i]) : i \in 2..5}
    [] OTHER -> {}

\* C12 as stated: after a successful handler call none of the literal
\* argument nodes the handler consumed is left in the graph.
ConsumedLiteralsDeleted ==
  (last.status = "ok") => (ConsumedLiterals \cap Live(graph) = {})

\* C13: after any sequence of successful handler calls every parent or
\* child id held by a live node is the id of a live node, every operator
\* that is not a source has a parent, and no node the last call deleted was
\* referred to by a node that is still there.
LiveReferences ==
  (last.status \in {"none", "ok"}) =>
    /\ \A i \in Live(graph) : Refs(graph.nodes[i]) \subseteq Live(graph)
    /\ \A i \in Live(graph) :
         graph.nodes[i].kind \in OperatorKinds \ {"MemorySource"} =>
           Len(graph.nodes[i].parents) >= 1
    /\ \A d \in DeletedNodes :
         \A o \in Live(graph) \cap Live(last.pre) : d \notin Refs(last.pre.nodes[o])

\* A second call, a drop, has succeeded and deleted nodes.
LiveReferencesWitness ==
  /\ last.op = "drop" /\ last.status = "ok"
  /\ calls = 2
  /\ DeletedNodes # {}

\* C14 as stated: when a handler returns an error, the graph holds no
\* operator node made by that call and no Dataframe is returned.
NoPartialSuccess ==
  (last.status = "error") =>
    /\ \A i \in CreatedNodes : graph.nodes[i].kind \notin OperatorKinds
    /\ last.ret = 0
    /\ \A d \in DOMAIN dataframes : dataframes[d] \in Live(last.pre)

\* C15: the Join node a merge makes holds the `how` string as it was given
\* and has the parents df's operator and then `right`, whatever `how` is; a
\* merge with how = "right" makes no Join node of another type or with the
\* parents swapped.
JoinTypeNotNormalized ==
  (last.op = "merge" /\ last.pre.nodes[last.args[2]].kind = "String") =>
    /\ last.status = "ok" => Created("Join") = {last.ret}
    /\ \A j \in Created("Join") :
         /\ graph.nodes[j].str = last.pre.nodes[last.args[2]].str
         /\ graph.nodes[j].parents = <<DfOp, last.args[1]>>
    /\ last.pre.nodes[last.args[2]].str = "right" =>
         \A j \in Created("Join") : graph.nodes[j].val # LEFT_OUTER

\* A merge of two different operators with how = "right" and the other
\* arguments valid has returned.
JoinTypeNotNormalizedWitness ==
  /\ last.op = "merge" /\ MergeRightValid /\ MergeOnValid /\ MergeSuffixesValid
  /\ last.pre.nodes[last.args[2]].kind = "String"
  /\ last.pre.nodes[last.args[2]].str = "right"
  /\ DfOp # last.args[1]

\* C14, amended: when a handler returns an error no Dataframe is returned,
\* and the graph holds an operator node made by that call only when the
\* call is a head or a drop whose argument was valid and whose consumed
\* argument node could not be deleted: the Limit or Drop node made before
\* the deletion is then still in the graph, as is the argument.
ErrorReturnsNoDataframe ==
  (last.status = "error") =>
    /\ last.ret = 0
    /\ \A d \in DOMAIN dataframes : dataframes[d] \in Live(last.pre)
    /\ (\E i \in CreatedNodes : graph.nodes[i].kind \in OperatorKinds) =>
         /\ \/ last.op = "head" /\ last.pre.nodes[last.args[1]].kind = "Int"
            \/ /\ last.op = "drop"
               /\ last.pre.nodes[last.args[1]].kind = "List"
               /\ IsLabelArg(last.pre, last.args[1])
         /\ last.args[1] \in Live(graph)
         /\ \E o \in Live(last.pre) \ LiteralNodes(last.pre, last.args[1]) :
              Refs(last.pre.nodes[o]) \cap LiteralNodes(last.pre, last.args[1]) # {}

\* A head has returned an error and its Limit node is in the graph.
ErrorReturnsNoDataframeWitness ==
  /\ last.op = "head" /\ last.status = "error"
  /\ Created("Limit") # {}

\* ------------------------------------------- org retention plugin configs
\* A pointer field of the request that is not set.
Nil == "nil"

Org0 == "223e4567-e89b-12d3-a456-426655440000"
Org1 == "223e4567-e89b-12d3-a456-426655440001"

\* json.Marshal of a map[string]string, and json.Unmarshal of it.
Marshal(m) == {<<k, m[k]>> : k \in DOMAIN m}
Unmarshal(j) == [k \in {pair[1] : pair \in j} |-> (CHOOSE pair \in j : pair[1] = k)[2]]

\* PGP_SYM_ENCRYPT and PGP_SYM_DECRYPT: only the key that encrypted reads.
PGP_SYM_ENCRYPT(data, key) == [cipher |-> data, key |-> key]
PGP_SYM_DECRYPT(c, key) == IF c.key = key THEN c.cipher ELSE {}

\* A row of org_data_retention_plugins.
OrgRetentionPlugin(org_id, plugin_id, version, configurations, key) ==
  [org_id |-> org_id, plugin_id |-> plugin_id, version |-> version,
   configurations |-> PGP_SYM_ENCRYPT(Marshal(configurations), key)]

\* The rows mustLoadTestData leaves in org_data_retention_plugins.
mustLoadTestData ==
  {OrgRetentionPlugin(Org0, "test-plugin", "0.0.3", "license_key2" :> "12345", "test"),
   OrgRetentionPlugin(Org1, "test-plugin", "0.0.2", "license_key3" :> "hello", "test")}

\* What the test reads back: every row with its configurations decrypted.
orgConfigs(table, key) ==
  {[OrgID |-> r.org_id, PluginID |-> r.plugin_id, Version |-> r.version,
    Configurations |-> Unmarshal(PGP_SYM_DECRYPT(r.configurations, key))] : r \in table}

orgConfig(org_id, plugin_id, version, configurations) ==
  [OrgID |-> org_id, PluginID |-> plugin_id, Version |-> version,
   Configurations |-> configurations]

UpdateOrgRetentionPluginConfigRequest(org_id, plugin_id, configurations, enabled, version) ==
  [OrgID |-> org_id, PluginID |-> plugin_id, Configurations |-> configurations,
   Enabled |-> enabled, Version |-> version]

\* The cases of TestServer_UpdateRetentionConfigs: the request and the rows
\* the test requires afterwards.
tests ==
  << [name |-> "enabling new config",
      request |-> UpdateOrgRetentionPluginConfigRequest(
                    Org1, "another-plugin", "abcd" :> "hello", "true", "0.0.1"),
      expectedOrgConfigs |->
        {orgConfig(Org0, "test-plugin", "0.0.3", "license_key2" :> "12345"),
         orgConfig(Org1, "test-plugin", "0.0.2", "license_key3" :> "hello"),
         orgConfig(Org1, "another-plugin", "0.0.1", "abcd" :> "hello")}],
     [name |-> "deleting config",
      request |-> UpdateOrgRetentionPluginConfigRequest(
                    Org0, "test-plugin", <<>>, "false", Nil),
      expectedOrgConfigs |->
        {orgConfig(Org1, "test-plugin", "0.0.2", "license_key3" :> "hello")}],
     [name |-> "updating existing config",
      request |-> UpdateOrgRetentionPluginConfigRequest(
                    Org0, "test-plugin", "abcd" :> "hello", Nil, Nil),
      expectedOrgConfigs |->
        {orgConfig(Org0, "test-plugin", "0.0.3", "abcd" :> "hello"),
         orgConfig(Org1, "test-plugin", "0.0.2", "license_key3" :> "hello")}],
     [name |-> "updating version",
      request |-> UpdateOrgRetentionPluginConfigRequest(
                    Org0, "test-plugin", <<>>, Nil, "0.0.2"),
      expectedOrgConfigs |->
        {orgConfig(Org0, "test-plugin", "0.0.2", "license_key2" :> "12345"),
         orgConfig(Org1, "test-plugin", "0.0.2", "license_key3" :> "hello")}],
     [name |-> "updating version and config",
      request |-> UpdateOrgRetentionPluginConfigRequest(
                    Org0, "test-plugin", "abcd" :> "hello", Nil, "0.0.2"),
      expectedOrgConfigs |->
        {orgConfig(Org0, "test-plugin", "0.0.2", "abcd" :> "hello"),
         orgConfig(Org1, "test-plugin", "0.0.2", "license_key3" :> "hello")}] >>

\* The rows of the request's org and plugin.
RowsOf(table, req) ==
  {r \in table : r.org_id = req.OrgID /\ r.plugin_id = req.PluginID}

\* UpdatedRow that takes the version of the request also when it is not set.
UpdatedRow_AnyVersion(r, req, key) ==
  [r EXCEPT !.version = req.Version,
            !.configurations = IF DOMAIN req.Configurations = {} THEN @
                               ELSE PGP_SYM_ENCRYPT(Marshal(req.Configurations), key)]

\* The row after an update that neither enables nor disables: "updating
\* existing config", "updating version", "updating version and config".
UpdatedRow(r, req, key) ==
  [r EXCEPT !.version = IF req.Version = Nil THEN @ ELSE req.Version,
            !.configurations = IF DOMAIN req.Configurations = {} THEN @
                               ELSE PGP_SYM_ENCRYPT(Marshal(req.Configurations), key)]

\* The table after s.UpdateOrgRetentionPluginConfig(ctx, req), as the cases
\* of the test require it.
UpdateOrgRetentionPluginConfig(table, req, key) ==
  CASE req.Enabled = "true" ->
         table \cup {OrgRetentionPlugin(req.OrgID, req.PluginID, req.Version,
                                        req.Configurations, key)}
    [] req.Enabled = "false" -> table \ RowsOf(table, req)
    [] OTHER -> {IF r \in RowsOf(table, req) THEN UpdatedRow(r, req, key) ELSE r : r \in table}

\* The shapes of request the test has a case for.
Tested(table, req) ==
  CASE req.Enabled = "true" ->
         RowsOf(table, req) = {} /\ req.Version # Nil /\ DOMAIN req.Configurations # {}
    [] req.Enabled = "false" ->
         RowsOf(table, req) # {} /\ req.Version = Nil /\ DOMAIN req.Configurations = {}
    [] OTHER ->
         RowsOf(table, req) # {} /\ (req.Version # Nil \/ DOMAIN req.Configurations # {})

Requests ==
  {UpdateOrgRetentionPluginConfigRequest(o, pl, c, e, v) :
     o \in {Org0, Org1}, pl \in {"test-plugin", "another-plugin"},
     c \in {<<>>, "abcd" :> "hello"}, e \in {Nil, "true", "false"},
     v \in {Nil, "0.0.1", "0.0.2"}}

InitPlugin ==
  /\ graph = [nodes |-> <<>>, next |-> 1]
  /\ dataframes = <<>>
  /\ objects = <<>>
  /\ org_data_retention_plugins = mustLoadTestData
  /\ last = [op |-> "none", df |-> 0, args |-> <<>>, kwargs |-> <<>>,
             pre |-> org_data_retention_plugins,
             status |-> "none", err |-> "", ret |-> 0]
  /\ calls = 0

\* One call of the server; `pre` keeps the table as it was before.
UpdateRetentionConfigs ==
  /\ calls < MaxCalls
  /\ \E req \in Requests :
       /\ Tested(org_data_retention_plugins, req)
       /\ org_data_retention_plugins' =
            UpdateOrgRetentionPluginConfig(org_data_retention_plugins, req, "test")
       /\ last' = [op |-> "update", df |-> 0, args |-> req, kwargs |-> <<>>,
                   pre |-> org_data_retention_plugins,
                   status |-> "ok", err |-> "", ret |-> 0]
  /\ calls' = calls + 1
  /\ UNCHANGED <<graph, dataframes, objects>>

NextPlugin == UpdateRetentionConfigs

SpecPlugin == InitPlugin /\ [][NextPlugin]_vars

\* -------------------------------------------------------------- lowering
\* Most operators in a graph that is lowered.
MaxOps == 5

MemorySinkIR(parent, name) == Node("MemorySink", <<parent>>, name, 0, <<>>, <<>>, <<>>, FALSE)
\* GRPCSinkOperator: its destination is the DAG id of its GRPCSource.
GRPCSinkIR(parent, grpc_source_id) ==
  Node("GRPCSink", <<parent>>, "", grpc_source_id, <<>>, <<>>, <<>>, FALSE)
GRPCSourceIR(source_id) == Node("GRPCSource", <<>>, "", source_id, <<>>, <<>>, <<>>, FALSE)

SinkKinds == {"MemorySink", "GRPCSink"}
PlanOperatorKinds == OperatorKinds \cup SinkKinds \cup {"GRPCSource"}

Operators(g) == {i \in Live(g) : g.nodes[i].kind \in PlanOperatorKinds}

\* Parent/child adjacency restricted to operator kinds.
OperatorParents(g, i) == Elems(g.nodes[i].parents) \cap Operators(g)
OperatorChildren(g, i) == {c \in Operators(g) : i \in Elems(g.nodes[c].parents)}

RECURSIVE AncestorsOf(_, _)
AncestorsOf(g, set) ==
  LET more == set \cup UNION {OperatorParents(g, i) : i \in set}
  IN IF more = set THEN set ELSE AncestorsOf(g, more)

RECURSIVE DescendantsOf(_, _)
DescendantsOf(g, set) ==
  LET more == set \cup UNION {OperatorChildren(g, i) : i \in set}
  IN IF more = set THEN set ELSE DescendantsOf(g, more)

Ancestors(g, i) == AncestorsOf(g, OperatorParents(g, i))
Descendants(g, i) == DescendantsOf(g, OperatorChildren(g, i))

\* FragmentOf that follows a GRPCSink to the GRPCSource it names.
RECURSIVE FragmentOf_AcrossHop(_, _)
FragmentOf_AcrossHop(g, set) ==
  LET hops == {r \in Operators(g) : \E s \in set :
                 /\ g.nodes[s].kind = "GRPCSink"
                 /\ g.nodes[r].kind = "GRPCSource"
                 /\ g.nodes[s].val = g.nodes[r].val}
      more == set \cup hops \cup UNION {Ancestors(g, i) \cup Descendants(g, i) : i \in set}
  IN IF more = set THEN set ELSE FragmentOf_AcrossHop(g, more)

\* The operators of the fragment that holds `set`: a GRPCSink ends its
\* fragment and a GRPCSource begins one, the two being tied by their shared
\* id and by no edge.
RECURSIVE FragmentOf(_, _)
FragmentOf(g, set) ==
  LET more == set \cup UNION {Ancestors(g, i) \cup Descendants(g, i) : i \in set}
  IN IF more = set THEN set ELSE FragmentOf(g, more)

Fragments(g) == {FragmentOf(g, {i}) : i \in Operators(g)}

\* SortedIds with the largest id first.
RECURSIVE SortedIds_Descending(_)
SortedIds_Descending(ids) ==
  IF ids = {} THEN <<>>
  ELSE LET m == CHOOSE x \in ids : \A y \in ids : y <= x
       IN <<m>> \o SortedIds_Descending(ids \ {m})

\* The ids in ascending order.
RECURSIVE SortedIds(_)
SortedIds(ids) ==
  IF ids = {} THEN <<>>
  ELSE LET m == CHOOSE x \in ids : \A y \in ids : x <= y
       IN <<m>> \o SortedIds(ids \ {m})

FragmentId(within) == CHOOSE x \in within : \A y \in within : x <= y

DAGNode(id, parents, children) ==
  [id |-> id, sorted_parents |-> SortedIds(parents), sorted_children |-> SortedIds(children)]

\* The DAG of the operators `within` one fragment.
DAG(g, within) ==
  LET ids == SortedIds(within)
  IN [nodes |-> [k \in DOMAIN ids |->
                   DAGNode(ids[k], OperatorParents(g, ids[k]) \cap within,
                           OperatorChildren(g, ids[k]) \cap within)]]

PlanNode(g, i) == [id |-> i, op |-> g.nodes[i].kind]

PlanFragment(g, within) ==
  LET ids == SortedIds(within)
  IN [id |-> FragmentId(within), dag |-> DAG(g, within),
      nodes |-> [k \in DOMAIN ids |-> PlanNode(g, ids[k])]]

\* A GRPCSink of fragment `from` names a GRPCSource of fragment `to`.
Feeds(g, from, to) ==
  \E s \in from, r \in to :
    /\ g.nodes[s].kind = "GRPCSink"
    /\ g.nodes[r].kind = "GRPCSource"
    /\ g.nodes[s].val = g.nodes[r].val

Plan(g) ==
  LET ids == SortedIds({FragmentId(f) : f \in Fragments(g)})
      fragment(id) == CHOOSE f \in Fragments(g) : FragmentId(f) = id
  IN [dag |-> [nodes |-> [k \in DOMAIN ids |->
                 DAGNode(ids[k],
                         {FragmentId(f) : f \in {x \in Fragments(g) : Feeds(g, x, fragment(ids[k]))}},
                         {FragmentId(f) : f \in {x \in Fragments(g) : Feeds(g, fragment(ids[k]), x)}})]],
      nodes |-> [k \in DOMAIN ids |-> PlanFragment(g, fragment(ids[k]))]]

\* Every operator that is not a sink has a sink among its descendants.
Finished(g) ==
  /\ Operators(g) # {}
  /\ \A i \in Operators(g) :
       g.nodes[i].kind \notin SinkKinds =>
         \E d \in Descendants(g, i) : g.nodes[d].kind \in SinkKinds

\* The id of the first operator: the ids before it went to other nodes.
FirstIds == {1, 4}

InitLower ==
  /\ \E first \in FirstIds : graph = [nodes |-> <<>>, next |-> first]
  /\ dataframes = <<>>
  /\ last = [op |-> "none", df |-> 0, args |-> <<>>, kwargs |-> <<>>, pre |-> graph,
             status |-> "none", err |-> "", ret |-> 0]
  /\ calls = 0
  /\ objects = <<>>
  /\ org_data_retention_plugins = {}

\* The graph is still being built and has room for `n` more operators.
Building(n) == last.op = "none" /\ Cardinality(Operators(graph)) + n <= MaxOps

\* The operators another operator can be put on.
CanFeed == {i \in Operators(graph) : graph.nodes[i].kind \notin SinkKinds}

SourceOp ==
  /\ Building(1)
  /\ graph' = AddNode(graph, MemorySourceIR("t1"))
  /\ UNCHANGED <<dataframes, last, calls, objects, org_data_retention_plugins>>

MapOp ==
  /\ Building(1)
  /\ \E parent \in CanFeed : graph' = AddNode(graph, MapIR(parent, <<>>, <<>>, FALSE))
  /\ UNCHANGED <<dataframes, last, calls, objects, org_data_retention_plugins>>

JoinOp ==
  /\ Building(1)
  /\ \E left \in CanFeed : \E right \in CanFeed \ {left} :
       graph' = AddNode(graph, Node("Join", JoinParents(left, right), "inner", INNER,
                                    <<>>, <<>>, <<>>, FALSE))
  /\ UNCHANGED <<dataframes, last, calls, objects, org_data_retention_plugins>>

MemorySinkOp ==
  /\ Building(1)
  /\ \E parent \in CanFeed : graph' = AddNode(graph, MemorySinkIR(parent, "out"))
  /\ UNCHANGED <<dataframes, last, calls, objects, org_data_retention_plugins>>

\* A network hop: a GRPCSink and the GRPCSource whose id it names.
GRPCBridge ==
  /\ Building(2)
  /\ \E parent \in CanFeed :
       graph' = AddNode(AddNode(graph, GRPCSinkIR(parent, graph.next + 1)),
                        GRPCSourceIR(graph.next + 1))
  /\ UNCHANGED <<dataframes, last, calls, objects, org_data_retention_plugins>>

Lower ==
  /\ last.op = "none"
  /\ Finished(graph)
  /\ last' = [op |-> "lower", df |-> 0, args |-> <<>>, kwargs |-> <<>>, pre |-> graph,
              status |-> "ok", err |-> "", ret |-> Plan(graph)]
  /\ UNCHANGED <<graph, dataframes, calls, objects, org_data_retention_plugins>>

NextLower == SourceOp \/ MapOp \/ JoinOp \/ MemorySinkOp \/ GRPCBridge \/ Lower

SpecLower == InitLower /\ [][NextLower]_vars

\* ------------------------------------------------------------ exporting
\* Most definitions and applications in one script.
MaxSteps == 4

\* The sink carries the payload and the expected columns of its Exporter.
OTelExportSinkIR(parent, pb, columns) ==
  Node("OTelExportSink", <<parent>>, pb, 0, <<>>, <<>>, columns, FALSE)

\* ExportToOTel that hands the sink no expected columns.
ExportToOTel_NoColumns(g, pb, columns, op) == AddNode(g, OTelExportSinkIR(op, pb, <<>>))

\* ExportToOTel: one sink node on the operator of the Dataframe.
ExportToOTel(g, pb, columns, op) == AddNode(g, OTelExportSinkIR(op, pb, columns))

\* The data object of a metric that pushes the attribute columns onto the
\* columns of the object itself.
DataAfterMetric_Shared(data, columns) == OTelMetricData(data.c[1], columns)

\* The data object after a metric was defined from it: the definition works
\* on a copy of its payload and a copy of its columns.
DataAfterMetric(data, columns) == data

\* A definition or an application may follow when no error ended the script.
CanStep == calls < MaxSteps /\ last.status \in {"none", "ok"}

\* A definition with the arguments `args`, returning `r`: the object it
\* returns is held by the script.  `df` is the place of the object a metric
\* takes its data from.
Define(op, df, args, r) ==
  /\ graph' = graph
  /\ dataframes' = dataframes
  /\ objects' = IF r.status # "ok" THEN objects
                ELSE IF op = "metric"
                THEN Append([objects EXCEPT ![df] = DataAfterMetric(@, r.ret.c[2])], r.ret)
                ELSE Append(objects, r.ret)
  /\ last' = [op |-> op, df |-> df, args |-> args, kwargs |-> <<>>, pre |-> graph,
              status |-> r.status, err |-> r.err, ret |-> r.ret]
  /\ calls' = calls + 1
  /\ UNCHANGED org_data_retention_plugins

ExportAttributes == {Omitted, DictObject(<<S("k1")>>, <<S("c1")>>)}

DefineSpan ==
  /\ CanStep
  /\ \E attributes \in ExportAttributes, endpoint \in EndpointArgs :
       LET args == [name |-> S("my_span"), span_id |-> Omitted, parent_span_id |-> Omitted,
                    trace_id |-> Omitted, status |-> Omitted,
                    start_time_unix_nano |-> S("t0"), end_time_unix_nano |-> S("t1"),
                    kind |-> Omitted, attributes |-> attributes, endpoint |-> endpoint]
       IN Define("span", 0, args,
                 OTelSpanDefinition(
                   [a \in DOMAIN args |->
                      IF a \in DOMAIN SpanDefaults THEN WithDefault(args[a], SpanDefaults[a])
                      ELSE args[a]]))

DefineGauge ==
  /\ CanStep
  /\ \E value \in {S("latency"), I(1)} :
       LET args == [value |-> value, start_time_unix_nano |-> S("t0"),
                    time_unix_nano |-> S("t1")]
       IN Define("gauge", 0, args, OTelGaugeDefinition(args))

DefineSummary ==
  /\ CanStep
  /\ LET args == [count |-> S("n"), sum |-> S("total"),
                  quantile_values |-> DictObject(<<Fl(50)>>, <<S("p50")>>),
                  start_time_unix_nano |-> S("t0"), time_unix_nano |-> S("t1")]
     IN Define("summary", 0, args, OTelSummaryDefinition(args))

\* metric(data = the i-th object the script holds).
DefineMetric ==
  /\ CanStep
  /\ \E i \in DOMAIN objects, name \in {S("m1"), S("m2")},
        attributes \in ExportAttributes :
       LET args == [name |-> name, description |-> S("about " \o name.s),
                    data |-> objects[i], attributes |-> attributes,
                    endpoint |-> EndpointConfig("otel:4317", <<>>)]
       IN Define("metric", i, args,
                 OTelMetricDefinition(
                   [args EXCEPT !.attributes = WithDefault(@, MetricDefaults.attributes)]))

\* The e-th object, an Exporter, applied to the d-th Dataframe.
Export ==
  /\ CanStep
  /\ \E e \in DOMAIN objects, d \in DOMAIN dataframes :
       /\ objects[e].k = "Exporter"
       /\ graph' = ExportToOTel(graph, objects[e].c[1], objects[e].c[2], dataframes[d])
       /\ last' = [op |-> "export", df |-> d, args |-> <<e>>, kwargs |-> <<>>, pre |-> graph,
                   status |-> "ok", err |-> <<>>, ret |-> NoneObject]
  /\ calls' = calls + 1
  /\ UNCHANGED <<dataframes, objects, org_data_retention_plugins>>

NextExport == DefineSpan \/ DefineGauge \/ DefineSummary \/ DefineMetric \/ Export

SpecExport == Init /\ [][NextExport]_vars

\* ------------------------------------------------- reading a builder call
\* The argument is a string node, given or left to its empty-string default.
StringOrOmitted(a) == a.k \in {"String", "Omitted"}

\* The dictionary the last builder call goes through.
DictOfCall ==
  IF last.op = "summary" THEN last.args.quantile_values ELSE last.args.attributes

\* Its key list and its value list differ in length.
DictMismatch ==
  /\ DictOfCall.k = "Dict"
  /\ Len(DictOfCall.c[1]) # Len(DictOfCall.c[2])

\* Every argument the builder reads before the dictionary is valid.
ReachesDict ==
  CASE last.op = "span" ->
         /\ last.args.endpoint.k = "Endpoint"
         /\ last.args.name.k = "String"
         /\ StringOrOmitted(last.args.span_id)
         /\ StringOrOmitted(last.args.parent_span_id)
         /\ StringOrOmitted(last.args.trace_id)
         /\ StringOrOmitted(last.args.status)
         /\ last.args.start_time_unix_nano.k = "String"
         /\ last.args.end_time_unix_nano.k = "String"
         /\ \/ last.args.kind.k = "Omitted"
            \/ last.args.kind.k = "Int" /\ last.args.kind.v \in {0, 1, 2}
    [] last.op = "metric" ->
         /\ last.args.data.k = "OTelMetricData"
         /\ last.args.endpoint.k = "Endpoint"
         /\ last.args.name.k = "String"
         /\ last.args.description.k = "String"
    [] last.op = "summary" -> last.args.count.k = "String" /\ last.args.sum.k = "String"
    [] last.op = "endpoint" -> last.args.url.k = "String"
    [] OTHER -> FALSE

\* C16 as stated: a builder that comes to a dictionary whose key list and
\* value list differ in length aborts; it returns neither an object nor an
\* error.
DictMismatchAborts ==
  (last.op \in {"span", "metric", "summary", "endpoint"} /\ ReachesDict /\ DictMismatch) =>
    last.status = "abort"

\* The time arguments of the last builder call.
TimeArgsOfCall ==
  IF last.op = "span"
  THEN <<last.args.start_time_unix_nano, last.args.end_time_unix_nano>>
  ELSE <<last.args.start_time_unix_nano, last.args.time_unix_nano>>

GivenString(a) == IF a.k = "Omitted" THEN "" ELSE a.s

\* The columns are the ones of these roles, names and types, in this order.
ColumnsAre(columns, roles, names, types) ==
  /\ Len(columns) = Len(roles)
  /\ \A i \in DOMAIN columns :
       /\ columns[i].role = roles[i]
       /\ columns[i].name = names[i]
       /\ columns[i].node.s = names[i]
       /\ columns[i].types = types[i]

\* C18: the expected columns of a successful builder call are, in order,
\* for a span span_id, parent_span_id, trace_id (STRING), status (INT64),
\* start_time_unix_nano, end_time_unix_nano (TIME64NS) and one STRING
\* 'attribute' per dictionary entry, 6+n in all also when the optional
\* arguments are left out; for a gauge value ({INT64, FLOAT64}) and the two
\* time columns; for a summary count, sum (FLOAT64), one FLOAT64 column per
\* quantile and the two time columns.  Each is named by the string of its
\* source node.
ExpectedColumnOrder ==
  (last.op \in {"span", "gauge", "summary"} /\ last.status = "ok") =>
    LET columns == last.ret.c[2]
        a == last.args
        n == IF last.op = "gauge" \/ DictOfCall.k = "Omitted" THEN 0
             ELSE Len(DictOfCall.c[1])
        entries == IF n = 0 THEN <<>> ELSE [i \in 1..n |-> DictOfCall.c[2][i].s]
    IN CASE last.op = "span" ->
              /\ Len(columns) = 6 + n
              /\ ColumnsAre(columns,
                   <<"span_id", "parent_span_id", "trace_id", "status",
                     "start_time_unix_nano", "end_time_unix_nano">>
                     \o [i \in 1..n |-> "attribute"],
                   <<GivenString(a.span_id), GivenString(a.parent_span_id),
                     GivenString(a.trace_id), GivenString(a.status),
                     a.start_time_unix_nano.s, a.end_time_unix_nano.s>> \o entries,
                   <<{"STRING"}, {"STRING"}, {"STRING"}, {"INT64"}, {"TIME64NS"}, {"TIME64NS"}>>
                     \o [i \in 1..n |-> {"STRING"}])
         [] last.op = "gauge" ->
              ColumnsAre(columns,
                <<"value", "start_time_unix_nano", "time_unix_nano">>,
                <<a.value.s, a.start_time_unix_nano.s, a.time_unix_nano.s>>,
                <<{"INT64", "FLOAT64"}, {"TIME64NS"}, {"TIME64NS"}>>)
         [] last.op = "summary" ->
              /\ Len(columns) = 4 + n
              /\ ColumnsAre(columns,
                   <<"count", "sum">>
                     \o [i \in 1..n |-> <<"quantile", DictOfCall.c[1][i].v>>]
                     \o <<"start_time_unix_nano", "time_unix_nano">>,
                   <<a.count.s, a.sum.s>> \o entries
                     \o <<a.start_time_unix_nano.s, a.time_unix_nano.s>>,
                   <<{"FLOAT64"}, {"FLOAT64"}>> \o [i \in 1..n |-> {"FLOAT64"}]
                     \o <<{"TIME64NS"}, {"TIME64NS"}>>)

\* A span with two attributes and no span_id given has been built.
ExpectedColumnOrderWitness ==
  /\ last.op = "span" /\ last.status = "ok"
  /\ last.args.span_id.k = "Omitted"
  /\ last.args.attributes.k = "Dict"
  /\ Len(last.args.attributes.c[1]) = 2
  /\ Len(last.ret.c[2]) = 8

IsSingleChain(g) ==
  /\ Cardinality(Live(g)) = 3
  /\ \E s, m, k \in Live(g) :
       /\ g.nodes[s].kind = "MemorySource"
       /\ g.nodes[m].kind = "Map" /\ g.nodes[m].parents = <<s>>
       /\ g.nodes[k].kind = "MemorySink" /\ g.nodes[k].parents = <<m>>

StrictlyAscending(ids) == \A i, j \in DOMAIN ids : i < j => ids[i] < ids[j]

\* Every node of the DAG lists its parents and its children in strictly
\* ascending order, and lists only ids of nodes of the DAG.
WellSorted(dag) ==
  \A n \in Elems(dag.nodes) :
    /\ StrictlyAscending(n.sorted_parents)
    /\ StrictlyAscending(n.sorted_children)
    /\ Elems(n.sorted_parents) \cup Elems(n.sorted_children)
         \subseteq {x.id : x \in Elems(dag.nodes)}

RECURSIVE Side(_, _)
Side(g, set) ==
  LET more == set \cup {i \in Operators(g) : \E j \in set :
                          \/ j \in Elems(g.nodes[i].parents)
                          \/ i \in Elems(g.nodes[j].parents)}
  IN IF more = set THEN set ELSE Side(g, more)

\* The GRPCSink s names the GRPCSource r by the id 7, and the graph is the
\* subgraph of s and the subgraph of r, which share no operator.
HopOf7(g, s, r) ==
  /\ g.nodes[s].kind = "GRPCSink" /\ g.nodes[s].val = 7
  /\ g.nodes[r].kind = "GRPCSource" /\ r = 7
  /\ Side(g, {s}) \cap Side(g, {r}) = {}
  /\ Side(g, {s}) \cup Side(g, {r}) = Operators(g)

\* C21: a graph of two otherwise disjoint subgraphs, one ending in a
\* GRPCSink that names the id 7 and one beginning with the GRPCSource of id
\* 7, lowers to exactly two fragments; each fragment holds nodes of one side
\* only, and no node of its DAG lists a node of the other side as parent or
\* child.
DistributedBoundary ==
  (last.op = "lower") =>
    \A s, r \in Operators(last.pre) :
      HopOf7(last.pre, s, r) =>
        /\ Len(last.ret.nodes) = 2
        /\ \A f \in Elems(last.ret.nodes) :
             \E side \in {Side(last.pre, {s}), Side(last.pre, {r})} :
               /\ {n.id : n \in Elems(f.nodes)} = side
               /\ \A n \in Elems(f.dag.nodes) :
                    /\ n.id \in side
                    /\ Elems(n.sorted_parents) \cup Elems(n.sorted_children) \subseteq side

\* Such a graph, with two operators before the hop and one after it, has
\* been lowered.
DistributedBoundaryWitness ==
  /\ last.op = "lower"
  /\ \E s, r \in Operators(last.pre) :
       /\ HopOf7(last.pre, s, r)
       /\ Cardinality(Side(last.pre, {s})) = 3
       /\ Cardinality(Side(last.pre, {r})) = 2

\* C22: DeleteNode on a node that another node still refers to returns an
\* error and changes nothing: a head whose integer a node of the graph
\* refers to returns an error, the integer and every node that was in the
\* graph are there as they were; and after any call no node that is left
\* refers to a node that the call removed.
DeleteNodeFailsSafely ==
  /\ (/\ last.op = "head"
      /\ last.pre.nodes[last.args[1]].kind = "Int"
      /\ Referenced(last.pre, last.args[1])) =>
       /\ last.status = "error"
       /\ last.args[1] \in Live(graph)
       /\ \A i \in Live(last.pre) : i \in Live(graph) /\ graph.nodes[i] = last.pre.nodes[i]
  /\ \A d \in DeletedNodes : \A o \in Live(graph) : d \notin Refs(graph.nodes[o])

\* A head has been called, after an earlier call, with an integer that a
\* node of the graph refers to.
DeleteNodeFailsSafelyWitness ==
  /\ last.op = "head" /\ calls = 2
  /\ last.pre.nodes[last.args[1]].kind = "Int"
  /\ Referenced(last.pre, last.args[1])
  /\ last.status = "error"

\* --------------------------------------------------- reading the table
\* The rows of the request's pair, as the test reads them.
ReadOf(table, req) == orgConfigs(RowsOf(table, req), "test")

FiltersBy(key) ==
  /\ last.status = "ok"
  /\ Created("Filter") = {last.ret}
  /\ CreatedNodes = {last.ret}
  /\ graph.nodes[last.ret].parents = <<DfOp>>
  /\ graph.nodes[last.ret].children = <<key>>
  /\ DeletedNodes = {}

\* C24 as stated: df[key] with key an expression that is not a list of
\* strings (a column, a function, a scalar, a tuple, a list with an element
\* that is not a string) makes a Filter node wrapping key and deletes
\* nothing; only a key that is no expression is an error.
SubscriptFiltersByAnyOtherKey ==
  (last.op = "subscript") =>
    LET key == last.args[1]
    IN /\ (/\ last.pre.nodes[key].kind \in ExpressionKinds
           /\ ~(last.pre.nodes[key].kind = "List" /\ IsLabelArg(last.pre, key))) =>
            FiltersBy(key)
       /\ last.status = "error" => last.pre.nodes[key].kind \notin ExpressionKinds

\* C24, amended: df[key] with key an expression that is not a list makes a
\* Filter node wrapping key and deletes nothing; a key that is a list with
\* an element that is not a string is an error, as is a key that is no
\* expression, and both leave the graph as it was.
SubscriptFiltersByNonList ==
  (last.op = "subscript") =>
    LET key == last.args[1]
    IN /\ (/\ last.pre.nodes[key].kind \in ExpressionKinds
           /\ last.pre.nodes[key].kind # "List") => FiltersBy(key)
       /\ (\/ last.pre.nodes[key].kind \notin ExpressionKinds
           \/ last.pre.nodes[key].kind = "List" /\ ~IsLabelArg(last.pre, key)) =>
            /\ last.status = "error"
            /\ graph = last.pre

\* A subscript with a list that holds a string and an integer has returned
\* an error.
SubscriptFiltersByNonListWitness ==
  /\ last.op = "subscript" /\ last.status = "error"
  /\ last.pre.nodes[last.args[1]].kind = "List"
  /\ \E i \in DOMAIN last.pre.nodes[last.args[1]].children :
       last.pre.nodes[last.pre.nodes[last.args[1]].children[i]].kind = "Int"

\* C25: after any sequence of handler calls the parent relation on
\* operator nodes has no cycle: no operator is among its own ancestors;
\* every operator the last call made has parents that were in the graph
\* before it, and no operator that was there has other parents than before.
OperatorsAcyclic ==
  /\ \A i \in Operators(graph) : i \notin Ancestors(graph, i)
  /\ \A i \in Operators(graph) \cap CreatedNodes :
       Elems(graph.nodes[i].parents) \subseteq Operators(last.pre)
  /\ \A i \in Operators(graph) \cap Live(last.pre) :
       graph.nodes[i].parents = last.pre.nodes[i].parents

\* A second call, a merge of a Dataframe with an operator that is an
\* ancestor or a descendant of its own, has made a Join.
OperatorsAcyclicWitness ==
  /\ last.op = "merge" /\ last.status = "ok" /\ calls = 2
  /\ last.args[1] \in Ancestors(graph, DfOp) \cup Descendants(graph, DfOp)
  /\ last.ret \in Descendants(graph, last.args[1])

\* C26: a handler call leaves the Dataframe it is called on wrapping the
\* operator it wrapped, unchanged; the Dataframe it returns wraps an
\* operator the call made, whose first parent is that operator; no node the
\* call made is a copy of it; and two calls that succeed on one operator
\* leave two different operators with it as parent.
InputNotRetargeted ==
  /\ dataframes[1] = 1 /\ dataframes[2] = 2
  /\ (last.op # "none") =>
       /\ DfOp \in Live(graph)
       /\ graph.nodes[DfOp] = last.pre.nodes[DfOp]
       /\ \A i \in CreatedNodes : graph.nodes[i] # graph.nodes[DfOp]
  /\ (last.op # "none" /\ last.status = "ok") =>
       /\ dataframes[Len(dataframes)] = last.ret
       /\ last.ret \in CreatedNodes
       /\ graph.nodes[last.ret].kind \in OperatorKinds
       /\ graph.nodes[last.ret].parents[1] = DfOp
  /\ \A d, e \in DOMAIN dataframes :
       (d < e /\ d > 2) =>
         /\ dataframes[d] # dataframes[e]
         /\ {dataframes[d], dataframes[e]} \subseteq Live(graph)

\* Two calls on one Dataframe, the second a groupby, have both succeeded.
InputNotRetargetedWitness ==
  /\ last.op = "groupby" /\ last.status = "ok" /\ calls = 2
  /\ Len(dataframes) = 4
  /\ graph.nodes[dataframes[3]].parents[1] = DfOp
  /\ graph.nodes[dataframes[4]].parents[1] = DfOp
  /\ graph.nodes[dataframes[3]].kind = "Limit"

\* C27: merge looks at right, how, left_on, right_on and suffixes in this
\* order and returns the error of the first that is not valid.  It has made
\* the Column nodes of left_on and right_on before it looks at suffixes: a
\* merge in which only suffixes is not valid returns a suffixes error and
\* leaves |left_on| + |right_on| new Column nodes and no other new node,
\* none of them referred to by any node; a merge that fails on right or on
\* how has made no node.
MergeValidationOrder ==
  (last.op = "merge") =>
    LET rightOk == MergeRightValid
        howOk == last.pre.nodes[last.args[2]].kind = "String"
        leftOk == IsLabelArg(last.pre, last.args[3])
        rightOnOk == IsLabelArg(last.pre, last.args[4])
    IN /\ ~rightOk =>
            /\ last.status = "error" /\ last.err = "'right' must be an operator"
            /\ graph = last.pre
       /\ (rightOk /\ ~howOk) =>
            /\ last.status = "error" /\ last.err = "'how' must be a string"
            /\ graph = last.pre
       /\ (rightOk /\ howOk /\ ~leftOk) =>
            /\ last.status = "error"
            /\ last.err = "'left_on' must be a label or a list of labels"
       /\ (rightOk /\ howOk /\ leftOk /\ ~rightOnOk) =>
            /\ last.status = "error"
            /\ last.err = "'right_on' must be a label or a list of labels"
       /\ (rightOk /\ howOk /\ leftOk /\ rightOnOk /\ ~MergeSuffixesValid) =>
            /\ last.status = "error"
            /\ last.err \in {"'suffixes' must be a tuple with 2 strings for the left and right suffixes",
                             "'suffixes' must be a tuple with 2 elements"}
            /\ CreatedNodes = Created("Column")
            /\ Cardinality(CreatedNodes) =
                 Len(Labels(last.pre, last.args[3])) + Len(Labels(last.pre, last.args[4]))
            /\ DeletedNodes = {}
            /\ \A c \in CreatedNodes : ~Referenced(graph, c)

\* A merge with two left_on labels, two right_on labels and three suffixes
\* has returned an error.
MergeValidationOrderWitness ==
  /\ last.op = "merge" /\ last.status = "error"
  /\ MergeRightValid /\ MergeHowValid /\ MergeOnValid
  /\ Len(Labels(last.pre, last.args[3])) = 2
  /\ last.pre.nodes[last.args[5]].kind = "Tuple"
  /\ Len(last.pre.nodes[last.args[5]].children) = 3
  /\ Cardinality(Created("Column")) = 4

\* ------------------------------------------------ reading the endpoint
\* The endpoint the last span or metric call received.
EndpointOfCall == WithDefault(last.args.endpoint, SpanDefaults.endpoint)

EndpointError == <<"expected Endpoint type for 'endpoint' arg">>

\* C29 as stated: every span or metric call that omits `endpoint` returns
\* the error "expected Endpoint type for 'endpoint' arg" and no Exporter.
OmittedEndpointIsTheError ==
  (last.op \in {"span", "metric"} /\ last.args.endpoint = Omitted) =>
    /\ last.status = "error"
    /\ last.err = EndpointError
    /\ last.ret.k # "Exporter"

\* C29, amended: a span or metric call returns an Exporter only when its
\* endpoint is an Endpoint object; with any other endpoint, the default None
\* of a call that omits it among them, it returns an error and no Exporter.
\* For span the error is the endpoint error whatever the other arguments
\* are; for metric it is the endpoint error when `data` is an
\* OTelMetricData and the error of `data` when it is not.
EndpointRequired ==
  (last.op \in {"span", "metric"}) =>
    /\ last.status = "ok" =>
         /\ EndpointOfCall.k = "Endpoint"
         /\ last.ret.k = "Exporter"
         /\ last.ret.c[1].endpoint_config = EndpointOfCall
    /\ EndpointOfCall.k # "Endpoint" =>
         /\ last.status = "error"
         /\ last.ret.k # "Exporter"
         /\ last.op = "span" => last.err = EndpointError
         /\ last.op = "metric" =>
              last.err = IF last.args.data.k = "OTelMetricData" THEN EndpointError
                         ELSE <<"Expected an OTelMetricData type">>

\* A metric call that omits the endpoint, with a gauge as data and a name
\* that is no string, has returned the endpoint error.
EndpointRequiredWitness ==
  /\ last.op = "metric" /\ last.status = "error"
  /\ last.args.endpoint = Omitted
  /\ last.args.data.k = "OTelMetricData"
  /\ last.args.name.k = "Int"
  /\ last.err = EndpointError

\* ----------------------------------------------------- reading the sinks
Sinks(g) == {i \in Live(g) : g.nodes[i].kind = "OTelExportSink"}

\* C28: a span, metric, gauge or summary definition leaves the graph as it
\* was.  Applying an Exporter to a Dataframe makes exactly one node, an
\* OTelExportSink whose only parent is the operator of that Dataframe and
\* which carries the payload and the expected columns the Exporter was
\* defined with, and changes no other node; so there are as many sinks as
\* applications, each with the payload and columns of an Exporter that the
\* script holds.
ExportCreatesOneSink ==
  /\ last.op \in {"span", "metric", "gauge", "summary"} => graph = last.pre
  /\ last.op = "export" =>
       LET exporter == objects[last.args[1]]
       IN /\ Cardinality(CreatedNodes) = 1
          /\ DeletedNodes = {}
          /\ \A i \in Live(last.pre) : graph.nodes[i] = last.pre.nodes[i]
          /\ \A i \in CreatedNodes :
               /\ graph.nodes[i].kind = "OTelExportSink"
               /\ graph.nodes[i].parents = <<DfOp>>
               /\ graph.nodes[i].str = exporter.c[1]
               /\ graph.nodes[i].names = exporter.c[2]
  /\ Cardinality(Sinks(graph)) =
       calls - Len(objects) - (IF last.status = "error" THEN 1 ELSE 0)
  /\ \A i \in Sinks(graph) :
       \E e \in DOMAIN objects :
         /\ objects[e].k = "Exporter"
         /\ graph.nodes[i].str = objects[e].c[1]
         /\ graph.nodes[i].names = objects[e].c[2]

\* One Exporter has been applied three times, to both Dataframes.
ExportCreatesOneSinkWitness ==
  /\ last.op = "export" /\ Cardinality(Sinks(graph)) = 3 /\ Len(objects) = 1
  /\ {graph.nodes[i].parents : i \in Sinks(graph)} = {<<1>>, <<2>>}
  /\ \A i \in Sinks(graph) : Len(graph.nodes[i].names) > 0

\* ------------------------------------------------ reading the definitions
\* The Exporter was made by a metric definition from the data object.
MetricOf(exporter, data) ==
  /\ exporter.k = "Exporter" /\ exporter.c[1].kind = "metric"
  /\ data.k = "OTelMetricData"
  /\ exporter.c[1].metric = data.c[1]
  /\ Len(exporter.c[2]) = Len(data.c[2]) + Len(exporter.c[1].attributes)
  /\ SubSeq(exporter.c[2], 1, Len(data.c[2])) = data.c[2]
  /\ \A n \in DOMAIN exporter.c[1].attributes :
       LET column == exporter.c[2][Len(data.c[2]) + n]
       IN /\ column.role = "attribute"
          /\ column.name = exporter.c[1].attributes[n].value_column

\* C30: a metric definition leaves the OTelMetricData object it is given as
\* it was.  The Exporter it returns has the payload of the data object with
\* the name, the description and the attributes of this call, and the
\* columns of the data object followed by one column for each attribute of
\* this call; so every metric Exporter the script holds, however many were
\* defined from one data object, has the columns of a data object the
\* script holds followed by the columns of its own attributes alone.
MetricLeavesDataUnchanged ==
  /\ last.op = "metric" => objects[last.df] = last.args.data
  /\ (last.op = "metric" /\ last.status = "ok") =>
       LET exporter == objects[Len(objects)]
           attributes == WithDefault(last.args.attributes, MetricDefaults.attributes)
       IN /\ exporter = last.ret
          /\ MetricOf(exporter, last.args.data)
          /\ exporter.c[1].name = last.args.name.s
          /\ exporter.c[1].description = last.args.description.s
          /\ exporter.c[1].attributes =
               [n \in DOMAIN attributes.c[1] |->
                  [name |-> attributes.c[1][n].s, value_column |-> attributes.c[2][n].s]]
  /\ \A e \in DOMAIN objects :
       (objects[e].k = "Exporter" /\ objects[e].c[1].kind = "metric") =>
         \E d \in 1..(e - 1) : MetricOf(objects[e], objects[d])

\* Two metrics have been defined from one gauge, the first with an
\* attribute and the name m1, the second with no attribute and the name m2.
MetricLeavesDataUnchangedWitness ==
  /\ last.op = "metric" /\ last.status = "ok" /\ Len(objects) = 3 /\ last.df = 1
  /\ objects[1].k = "OTelMetricData" /\ objects[1].c[1].kind = "gauge"
  /\ objects[2].k = "Exporter" /\ objects[2].c[1].kind = "metric"
  /\ objects[2].c[1].metric = objects[1].c[1]
  /\ objects[2].c[1].name = "m1" /\ Len(objects[2].c[1].attributes) = 1
  /\ objects[3].c[1].name = "m2" /\ Len(objects[3].c[1].attributes) = 0
  /\ objects[3].c[2] = objects[1].c[2]

====
